---------------------------- MODULE Spec2Model ----------------------------
(***************************************************************************)
(* A model of the Congress proof-of-stake-authority engine of heco-chain:  *)
(* header verification, the authority snapshot, block preparation and      *)
(* sealing, and the system-contract finalization of a block.               *)
(*                                                                         *)
(* Addresses and extra-data are byte sequences of their real lengths.      *)
(* Hashes are modelled as injective (the hashed value itself), signatures  *)
(* as 65 bytes that carry the signing key and a digest of the message.     *)
(***************************************************************************)
EXTENDS Integers, Sequences, FiniteSets, TLC

VARIABLES
    chain,      \* the header chain known to the node: chain[n + 1] is block n
    recents,    \* c.recents: in-memory snapshots, a set of Snapshot records
    db,         \* c.db: snapshots persisted on disk
    validator,  \* c.validator: the local signing address (zero before Authorize)
    states,     \* the states the node has, by their root (c.stateFn)
    now,        \* the wall clock, in seconds
    op,         \* the engine operation that ran last
    hdr,        \* the header that operation was given (or produced)
    res,        \* what that operation returned
    calls,      \* the system messages that operation executed on the state
    work,       \* the block the miner is building or the node inserted last:
                \* <<>> or <<[stage, header, txs, state, extra, seal]>>
    body,       \* the transactions of the block that operation was given
    query,      \* the last call of a predicate of the engine: <<>> or <<record>>
    batch,      \* the run of VerifyHeaders: <<>> or <<record>>
    blacklists, \* c.blacklists: the cache of blacklists, pairs <<parent hash, map>>
    eventCheckRules,
                \* c.eventCheckRules: the cache of rules, pairs <<parent hash, map>>
    locks,      \* c.blLock, c.rulesLock and c.lock: the goroutine that holds each
                \* (for writing), or 0, and the goroutines that hold c.lock for reading
    callers,    \* the goroutines inside getBlacklist or getEventCheckRules:
                \* a sequence of [kind, header, state, pc, m, err]
    signFns,    \* c.signFn and c.signTxFn: the account of the wallet each signs
                \* with (zero when nil)
    config      \* c.config and c.chainConfig: the configuration the engine was built with

\* The locks, the goroutines that take them, and the signing functions.
lockVars == <<locks, callers, signFns>>

vars == <<chain, states, recents, db, validator, now, op, hdr, res, calls, work, body,
         query, batch, blacklists, eventCheckRules, locks, callers, signFns, config>>

-----------------------------------------------------------------------------
(* Bounds of the model. *)

\* The longest header chain (number of the highest block) the model builds.
MaxBlocks == 2

\* c.config.Epoch of the modelled chain configuration (the default is 30000).
Epoch == 2

\* c.config.Period of the modelled chain configuration, in seconds.
Period == 3

\* checkpointInterval, the number of blocks after which the snapshot is
\* saved to the database (1024 in the code), scaled to the chains modelled.
checkpointInterval == 3

\* chainConfig.RedCoastBlock of the modelled chain configuration.
RedCoastBlock == 1

\* The balance of the one funded user account of the genesis state.
GenesisFunds == 3

\* The clock when the node starts, late enough for MaxBlocks blocks of
\* other nodes to lie in the past.
Clock0 == MaxBlocks * (Period + 1)

-----------------------------------------------------------------------------
(* Program constants. *)

extraVanity == 32
extraSeal == 65
AddressLength == 20
maxValidators == 21
FullImmutabilityThreshold == 90000

diffInTurn == 2
diffNoTurn == 1

\* A nil *big.Int (header.Number, header.Difficulty, header.BaseFee).
NilInt == 0 - 1

errNil == "nil"
errUnknownBlock == "errUnknownBlock"
ErrFutureBlock == "ErrFutureBlock"
errMissingVanity == "errMissingVanity"
errMissingSignature == "errMissingSignature"
errExtraValidators == "errExtraValidators"
errInvalidExtraValidators == "errInvalidExtraValidators"
errInvalidMixDigest == "errInvalidMixDigest"
errInvalidUncleHash == "errInvalidUncleHash"
errInvalidDifficulty == "errInvalidDifficulty"
errWrongDifficulty == "errWrongDifficulty"
ErrInvalidTimestamp == "ErrInvalidTimestamp"
errUnauthorizedValidator == "errUnauthorizedValidator"
errRecentlySigned == "errRecentlySigned"
errInvalidValidatorsLength == "errInvalidValidatorsLength"
errInvalidCoinbase == "errInvalidCoinbase"
errInvalidSysGovCount == "errInvalidSysGovCount"
ErrUnknownAncestor == "ErrUnknownAncestor"
errInvalidGasLimit == "invalid gasLimit"
errInvalidGasUsed == "invalid gasUsed"
errInvalidBaseFee == "invalid baseFee before fork"
errInvalidSignature == "invalid signature"

\* types.CalcUncleHash(nil): the hash of the empty uncle list.
uncleHash == 1

-----------------------------------------------------------------------------
(* Bytes and addresses. *)

Zeros(n) == [i \in 1..n |-> 0]

\* s[from:to] of Go, on a 1-based sequence: elements from + 1 .. to.
Slice(s, from, to) == SubSeq(s, from + 1, to)

\* bytes.Compare(a, b) < 0 for byte sequences of equal length.
BytesLess(a, b) ==
    \E i \in 1..Len(a) :
        /\ a[i] < b[i]
        /\ \A j \in 1..(i - 1) : a[j] = b[j]

\* A 20-byte address; only its first and last bytes vary in the model.
MkAddr(hi, lo) ==
    [i \in 1..AddressLength |-> IF i = 1 THEN hi ELSE IF i = AddressLength THEN lo ELSE 0]

ZeroAddr == MkAddr(0, 0)
AddrA == MkAddr(1, 9)
AddrB == MkAddr(2, 7)
AddrC == MkAddr(2, 8)
AddrD == MkAddr(3, 1)
AddrE == MkAddr(4, 0)
\* An account that is never a validator.
AddrX == MkAddr(2, 9)

\* validator.Bytes() of each list element, concatenated.
RECURSIVE AddrListBytes(_)
AddrListBytes(list) ==
    IF list = <<>> THEN <<>> ELSE Head(list) \o AddrListBytes(Tail(list))

-----------------------------------------------------------------------------
(* Headers, their RLP and their hashes. *)

\* Keccak256, modelled as injective: the hash of a value is a wrapping of
\* the value, so two hashes are equal exactly when the values are.
Keccak256(x) == <<x>>

ZeroHash == <<>>

\* An encoding that takes the whole extra-data, seal included.
encodeSigHeaderSealed(header) ==
    [ParentHash |-> header.ParentHash,
     UncleHash |-> header.UncleHash,
     Coinbase |-> header.Coinbase,
     Root |-> header.Root,
     TxHash |-> header.TxHash,
     ReceiptHash |-> header.ReceiptHash,
     Bloom |-> header.Bloom,
     Difficulty |-> header.Difficulty,
     Number |-> header.Number,
     GasLimit |-> header.GasLimit,
     GasUsed |-> header.GasUsed,
     Time |-> header.Time,
     Extra |-> header.Extra,
     MixDigest |-> header.MixDigest,
     Nonce |-> header.Nonce]

\* encodeSigHeader: the RLP list of every header field except the trailing
\* 65 bytes of extra-data (RLP is injective, so the list is kept as it is).
\* Go panics when extra-data is shorter than 65 bytes; every caller checks
\* the length first.
encodeSigHeader(header) ==
    [ParentHash |-> header.ParentHash,
     UncleHash |-> header.UncleHash,
     Coinbase |-> header.Coinbase,
     Root |-> header.Root,
     TxHash |-> header.TxHash,
     ReceiptHash |-> header.ReceiptHash,
     Bloom |-> header.Bloom,
     Difficulty |-> header.Difficulty,
     Number |-> header.Number,
     GasLimit |-> header.GasLimit,
     GasUsed |-> header.GasUsed,
     Time |-> header.Time,
     Extra |-> SubSeq(header.Extra, 1, Len(header.Extra) - extraSeal),
     MixDigest |-> header.MixDigest,
     Nonce |-> header.Nonce]

CongressRLP(header) == encodeSigHeader(header)

SealHash(header) == Keccak256(encodeSigHeader(header))

\* header.Hash(): the hash of the RLP of all fields, the seal included.
HeaderHash(header) == Keccak256(header)

-----------------------------------------------------------------------------
(* Signatures. *)

\* A checksum of the extra-data that is signed: its first vanity byte and
\* the first and last byte of every embedded address, weighted by position.
RECURSIVE ExtraSum(_, _)
ExtraSum(extra, k) ==
    LET first == extraVanity + (k - 1) * AddressLength + 1
        last == extraVanity + k * AddressLength
    IN IF k = 0
       THEN IF Len(extra) > 0 THEN extra[1] + Len(extra) ELSE 0
       ELSE (k * (3 * (IF first <= Len(extra) THEN extra[first] ELSE 0)
                    + 5 * (IF last <= Len(extra) THEN extra[last] ELSE 0))
             + ExtraSum(extra, k - 1)) % 251

\* The byte of a signature that commits to the signed hash, the hash of an
\* RLP list of header fields: a checksum of the fields, of the extra-data
\* and of the parent the header names.
Digest(hash) ==
    LET msg == hash[1]
        parent == IF msg.ParentHash = ZeroHash THEN 0
                  ELSE LET p == msg.ParentHash[1]
                       IN p.Number + 3 * p.Time + 5 * p.Difficulty
                            + 7 * (p.Coinbase[1] + p.Coinbase[AddressLength])
                            + 11 * Len(p.Extra)
                            + 13 * p.Extra[Len(p.Extra) - extraSeal + AddressLength + 1]
        slots == (Len(msg.Extra) + AddressLength - 1) \div AddressLength
    IN (msg.UncleHash + 2 * (msg.Difficulty + 1) + 3 * (msg.Number + 1)
        + 5 * msg.Time + 7 * msg.MixDigest + 11 * msg.Nonce
        + 13 * (msg.GasLimit % 251) + 17 * (msg.GasUsed % 251)
        + 19 * (IF msg.Root = ZeroHash THEN 0
                ELSE Cardinality(msg.Root[1].balance) + 2 * Len(msg.Root[1].top)
                        + 3 * Len(msg.Root[1].passed)
                        + 5 * Cardinality(msg.Root[1].missed))
        + 23 * (msg.TxHash + msg.ReceiptHash + msg.Bloom)
        + 29 * (msg.Coinbase[1] + 3 * msg.Coinbase[AddressLength])
        + 31 * ExtraSum(msg.Extra, slots)
        + 37 * parent) % 251

\* signFn(account, mime, message): 65 bytes that carry the key's address
\* and a digest of the message; the last byte is the recovery id plus one.
SignBytes(account, message) ==
    [i \in 1..extraSeal |->
        IF i <= AddressLength THEN account[i]
        ELSE IF i = AddressLength + 1 THEN Digest(Keccak256(message))
        ELSE IF i = extraSeal THEN 1
        ELSE 0]

\* crypto.Ecrecover followed by the address derivation: the key whose
\* signature of this hash the 65 bytes are. Bytes that are no signature
\* give an error; a signature of another message recovers some unrelated
\* address.
Ecrecover(hash, signature) ==
    IF signature[extraSeal] = 0
    THEN [err |-> errInvalidSignature, addr |-> ZeroAddr]
    ELSE IF signature[AddressLength + 1] = Digest(hash)
    THEN [err |-> errNil, addr |-> SubSeq(signature, 1, AddressLength)]
    ELSE [err |-> errNil, addr |-> MkAddr(255, signature[AddressLength + 1])]

\* ecrecover(header, sigcache). The signature cache is keyed by the hash of
\* the whole header, so a hit returns what the recovery would return.
ecrecover(header) ==
    IF Len(header.Extra) < extraSeal
    THEN [err |-> errMissingSignature, addr |-> ZeroAddr]
    ELSE Ecrecover(SealHash(header),
                   SubSeq(header.Extra, Len(header.Extra) - extraSeal + 1, Len(header.Extra)))

-----------------------------------------------------------------------------
(* The header chain (consensus.ChainHeaderReader). *)

\* chain.GetHeaderByNumber(number): <<header>>, or <<>> for nil.
GetHeaderByNumber(number) ==
    IF number >= 0 /\ number + 1 <= Len(chain) THEN <<chain[number + 1]>> ELSE <<>>

\* chain.GetHeader(hash, number): <<header>>, or <<>> for nil.
GetHeader(hash, number) ==
    IF /\ number >= 0
       /\ number + 1 <= Len(chain)
       /\ HeaderHash(chain[number + 1]) = hash
    THEN <<chain[number + 1]>>
    ELSE <<>>

-----------------------------------------------------------------------------
(* The authority snapshot. A snapshot is a record                          *)
(*   [Number, Hash, Validators: a set of addresses,                        *)
(*    Recents: a set of <<block number, signer>> pairs].                   *)

\* The validators embedded in the extra-data of a checkpoint header.
ParseValidators(extra) ==
    [i \in 1..((Len(extra) - extraVanity - extraSeal) \div AddressLength) |->
        Slice(extra, extraVanity + (i - 1) * AddressLength,
                     extraVanity + i * AddressLength)]

newSnapshot(number, hash, validators) ==
    [Number |-> number,
     Hash |-> hash,
     Validators |-> {validators[i] : i \in 1..Len(validators)},
     Recents |-> {}]

\* sort.Sort(validatorsAscending(list)): ascending by address bytes.
RECURSIVE validatorsAscending(_)
validatorsAscending(list) ==
    IF list = <<>> THEN <<>>
    ELSE LET m == CHOOSE i \in 1..Len(list) :
                    \A j \in 1..Len(list) : ~BytesLess(list[j], list[i])
             rest == [k \in 1..(Len(list) - 1) |-> IF k < m THEN list[k] ELSE list[k + 1]]
         IN <<list[m]>> \o validatorsAscending(rest)

\* Some enumeration of a set as a sequence (Go's map iteration order).
RECURSIVE SetToSeq(_)
SetToSeq(S) ==
    IF S = {} THEN <<>>
    ELSE LET x == CHOOSE y \in S : TRUE IN <<x>> \o SetToSeq(S \ {x})

\* snap.validators(): the authorized validators in ascending order.
SnapValidators(snap) == validatorsAscending(SetToSeq(snap.Validators))

\* snap.inturn(number, validator): whether the validator is
\* Validators[number mod |Validators|] in ascending address order.
\* A rotation that starts with the first validator at block 1.
inturnFromOne(snap, number, v) ==
    LET validators == SnapValidators(snap)
    IN /\ v \in snap.Validators
       /\ validators[((number - 1) % Len(validators)) + 1] = v

inturn(snap, number, v) ==
    LET validators == SnapValidators(snap)
    IN /\ v \in snap.Validators
       /\ validators[(number % Len(validators)) + 1] = v

\* The length of the recent-signer window: len(Validators)/2 + 1.
RecentsLimit(snap) == (Cardinality(snap.Validators) \div 2) + 1

\* One header applied to a snapshot: the signer is recorded in Recents,
\* entries that left the window of len(Validators)/2 + 1 blocks are
\* evicted, and an epoch header replaces Validators by its embedded list.
applyHeader(snap, header) ==
    LET number == header.Number
        signer == ecrecover(header)
        limit == RecentsLimit(snap)
        kept == {r \in snap.Recents \cup {<<number, signer.addr>>} : r[1] > number - limit}
        embedded == ParseValidators(header.Extra)
    IN [Number |-> number,
        Hash |-> HeaderHash(header),
        Validators |-> IF number % Epoch = 0
                       THEN {embedded[i] : i \in 1..Len(embedded)}
                       ELSE snap.Validators,
        Recents |-> kept]

\* snap.apply(headers): the headers applied in ascending order.
RECURSIVE apply(_, _)
apply(snap, headers) ==
    IF headers = <<>> THEN snap
    ELSE apply(applyHeader(snap, Head(headers)), Tail(headers))

-----------------------------------------------------------------------------
(* Congress.snapshot: the snapshot at (number, hash).                      *)

Reverse(s) == [i \in 1..Len(s) |-> s[Len(s) + 1 - i]]

\* The entry of a snapshot store (cache or disk) under a hash.
Lookup(store, hash) ==
    IF \E sn \in store : sn.Hash = hash
    THEN <<CHOOSE sn \in store : sn.Hash = hash>>
    ELSE <<>>

\* store.Add(snap.Hash, snap).
StoreAdd(store, snap) == {sn \in store : sn.Hash # snap.Hash} \cup {snap}

\* The backward search of Congress.snapshot: from (number, hash) towards an
\* in-memory snapshot, an on-disk checkpoint or a trusted checkpoint
\* header, gathering the headers passed on the way (newest first).
\* Returns [err, snap, headers, parents, db].
\* In an execution where fails holds, snap.store returns an error.
errStore == "leveldb: closed"

RECURSIVE snapshotSearch(_, _, _, _, _, _, _)
snapshotSearch(number, hash, parents, headers, rc, d, fails) ==
    LET cached == Lookup(rc, hash)
        stored == Lookup(d, hash)
        checkpoint == GetHeaderByNumber(number)
    IN IF cached # <<>>
       THEN [err |-> errNil, snap |-> cached[1], headers |-> headers,
             parents |-> parents, db |-> d]
       ELSE IF number % checkpointInterval = 0 /\ stored # <<>>
       THEN [err |-> errNil, snap |-> stored[1], headers |-> headers,
             parents |-> parents, db |-> d]
       ELSE IF /\ \/ number = 0
                  \/ /\ number % Epoch = 0
                     /\ \/ Len(headers) > FullImmutabilityThreshold
                        \/ GetHeaderByNumber(number - 1) = <<>>
               /\ checkpoint # <<>>
       THEN IF fails
            THEN [err |-> errStore, snap |-> <<>>, headers |-> headers,
                  parents |-> parents, db |-> d]
            ELSE LET sn == newSnapshot(number, HeaderHash(checkpoint[1]),
                                       ParseValidators(checkpoint[1].Extra))
                 IN [err |-> errNil, snap |-> sn, headers |-> headers,
                     parents |-> parents, db |-> StoreAdd(d, sn)]
       ELSE IF Len(parents) > 0
       THEN LET header == parents[Len(parents)]
            IN IF HeaderHash(header) # hash \/ header.Number # number
               THEN [err |-> ErrUnknownAncestor, snap |-> <<>>, headers |-> headers,
                     parents |-> parents, db |-> d]
               ELSE snapshotSearch(number - 1, header.ParentHash,
                                   SubSeq(parents, 1, Len(parents) - 1),
                                   Append(headers, header), rc, d, fails)
       ELSE LET found == GetHeader(hash, number)
            IN IF found = <<>>
               THEN [err |-> ErrUnknownAncestor, snap |-> <<>>, headers |-> headers,
                     parents |-> parents, db |-> d]
               ELSE snapshotSearch(number - 1, found[1].ParentHash, parents,
                                   Append(headers, found[1]), rc, d, fails)

\* A snapshot built from the headers as they were gathered, newest first.
snapshotStoringUnreversed(number, hash, parents, rc, d, fails) ==
    LET stored(found, sn) ==
            IF sn.Number % checkpointInterval = 0 /\ Len(found.headers) > 0
            THEN IF fails
                 THEN [err |-> errStore, snap |-> <<>>, recents |-> StoreAdd(rc, sn),
                       db |-> found.db]
                 ELSE [err |-> errNil, snap |-> sn, recents |-> StoreAdd(rc, sn),
                       db |-> StoreAdd(found.db, sn)]
            ELSE [err |-> errNil, snap |-> sn, recents |-> StoreAdd(rc, sn),
                  db |-> found.db]
        applied(found) ==
            IF found.err # errNil
            THEN [err |-> found.err, snap |-> <<>>, recents |-> rc, db |-> found.db]
            ELSE stored(found, apply(found.snap, found.headers))
    IN applied(snapshotSearch(number, hash, parents, <<>>, rc, d, fails))

\* Congress.snapshot(chain, number, hash, parents) run against the cache rc
\* and the disk d, in an execution where snap.store fails or not: the
\* snapshot found is brought up to (number, hash) by the headers gathered,
\* oldest first, added to the cache, and saved at a checkpoint.
\* Returns [err, snap, recents, db].
snapshotStoring(number, hash, parents, rc, d, fails) ==
    LET stored(found, sn) ==
            IF sn.Number % checkpointInterval = 0 /\ Len(found.headers) > 0
            THEN IF fails
                 THEN [err |-> errStore, snap |-> <<>>, recents |-> StoreAdd(rc, sn),
                       db |-> found.db]
                 ELSE [err |-> errNil, snap |-> sn, recents |-> StoreAdd(rc, sn),
                       db |-> StoreAdd(found.db, sn)]
            ELSE [err |-> errNil, snap |-> sn, recents |-> StoreAdd(rc, sn),
                  db |-> found.db]
        applied(found) ==
            IF found.err # errNil
            THEN [err |-> found.err, snap |-> <<>>, recents |-> rc, db |-> found.db]
            ELSE stored(found, apply(found.snap, Reverse(found.headers)))
    IN applied(snapshotSearch(number, hash, parents, <<>>, rc, d, fails))

\* Congress.snapshot in the executions where the database takes the
\* snapshot.
snapshot(number, hash, parents, rc, d) ==
    snapshotStoring(number, hash, parents, rc, d, FALSE)

-----------------------------------------------------------------------------
(* Chain configuration. *)

\* chainConfig.LondonBlock: nil, the EIP-1559 fork is not scheduled.
LondonBlock == NilInt

IsLondon(number) == LondonBlock # NilInt /\ LondonBlock <= number

-----------------------------------------------------------------------------
(* Header verification. *)

\* seen > number - limit in uint64 arithmetic. When number < limit the
\* difference wraps around to 2^64 - (limit - number), which no block
\* number seen so far exceeds.
SeenAfterU64(seen, number, limit) ==
    IF number >= limit THEN seen > number - limit ELSE FALSE

\* The authorization checks with the membership test made first.
sealAuthorityMembershipFirst(snap, header, signer) ==
    IF signer \notin snap.Validators THEN errUnauthorizedValidator
    ELSE IF signer # header.Coinbase THEN errInvalidCoinbase
    ELSE errNil

\* verifySeal, the authorization of the recovered signer.
sealAuthority(snap, header, signer) ==
    IF signer # header.Coinbase THEN errInvalidCoinbase
    ELSE IF signer \notin snap.Validators THEN errUnauthorizedValidator
    ELSE errNil

\* verifySeal, the recent-signer rule.
sealRecents(snap, number, signer) ==
    IF \E r \in snap.Recents :
          /\ r[2] = signer
          /\ SeenAfterU64(r[1], number, RecentsLimit(snap))
    THEN errRecentlySigned
    ELSE errNil

\* verifySeal, the difficulty against the turn of the signer.
sealDifficulty(snap, header, signer) ==
    LET in == inturn(snap, header.Number, signer)
    IN IF in /\ header.Difficulty # diffInTurn THEN errWrongDifficulty
       ELSE IF ~in /\ header.Difficulty # diffNoTurn THEN errWrongDifficulty
       ELSE errNil

\* The checks of verifySeal on the snapshot of the parent, in order.
sealChecks(snap, header) ==
    LET signer == ecrecover(header)
        authority == sealAuthority(snap, header, signer.addr)
        recently == sealRecents(snap, header.Number, signer.addr)
    IN IF signer.err # errNil THEN signer.err
       ELSE IF authority # errNil THEN authority
       ELSE IF recently # errNil THEN recently
       ELSE sealDifficulty(snap, header, signer.addr)

\* Congress.verifySeal(chain, header, parents). Returns [err, recents, db].
verifySeal(header, parents, rc, d) ==
    IF header.Number = 0
    THEN [err |-> errUnknownBlock, recents |-> rc, db |-> d]
    ELSE LET s == snapshot(header.Number - 1, header.ParentHash, parents, rc, d)
         IN IF s.err # errNil
            THEN [err |-> s.err, recents |-> s.recents, db |-> s.db]
            ELSE [err |-> sealChecks(s.snap, header),
                  recents |-> s.recents, db |-> s.db]

\* misc.VerifyGaslimit(parentGasLimit, headerGasLimit): the gas limit may
\* move by less than 1/1024 of the parent's and not fall below 5000.
VerifyGaslimit(parentGasLimit, headerGasLimit) ==
    LET diff == IF parentGasLimit > headerGasLimit
                THEN parentGasLimit - headerGasLimit
                ELSE headerGasLimit - parentGasLimit
    IN IF diff >= parentGasLimit \div 1024 THEN errInvalidGasLimit
       ELSE IF headerGasLimit < 5000 THEN errInvalidGasLimit
       ELSE errNil

\* The timestamp rule with the comparison made inclusive.
verifyTimestampInclusive(parent, header) ==
    IF parent.Time + Period >= header.Time THEN ErrInvalidTimestamp ELSE errNil

\* The timestamp rule of verifyCascadingFields.
verifyTimestamp(parent, header) ==
    IF parent.Time + Period > header.Time THEN ErrInvalidTimestamp ELSE errNil

\* Congress.verifyCascadingFields(chain, header, parents).
verifyCascadingFields(header, parents, rc, d) ==
    LET number == header.Number
        found == IF Len(parents) > 0
                 THEN <<parents[Len(parents)]>>
                 ELSE GetHeader(header.ParentHash, number - 1)
        parent == found[1]
        fail(e) == [err |-> e, recents |-> rc, db |-> d]
    IN IF number = 0 THEN fail(errNil)
       ELSE IF \/ found = <<>>
               \/ parent.Number # number - 1
               \/ HeaderHash(parent) # header.ParentHash
       THEN fail(ErrUnknownAncestor)
       ELSE IF verifyTimestamp(parent, header) # errNil THEN fail(ErrInvalidTimestamp)
       ELSE IF header.GasUsed > header.GasLimit THEN fail(errInvalidGasUsed)
       ELSE IF ~IsLondon(number) /\ header.BaseFee # NilInt THEN fail(errInvalidBaseFee)
       ELSE IF ~IsLondon(number)
               /\ VerifyGaslimit(parent.GasLimit, header.GasLimit) # errNil
       THEN fail(errInvalidGasLimit)
       ELSE IF IsLondon(number) /\ header.BaseFee = NilInt THEN fail(errInvalidBaseFee)
       ELSE verifySeal(header, parents, rc, d)

\* The extra-data checks with the seal looked for before the vanity.
verifyExtraSealFirst(header) ==
    LET isEpoch == header.Number % Epoch = 0
        validatorsBytes == Len(header.Extra) - extraVanity - extraSeal
    IN IF Len(header.Extra) < extraVanity + extraSeal THEN errMissingSignature
       ELSE IF Len(header.Extra) < extraVanity THEN errMissingVanity
       ELSE IF ~isEpoch /\ validatorsBytes # 0 THEN errExtraValidators
       ELSE IF isEpoch /\ validatorsBytes % AddressLength # 0 THEN errExtraValidators
       ELSE errNil

\* The extra-data layout checks of verifyHeader.
verifyExtra(header) ==
    LET isEpoch == header.Number % Epoch = 0
        validatorsBytes == Len(header.Extra) - extraVanity - extraSeal
    IN IF Len(header.Extra) < extraVanity THEN errMissingVanity
       ELSE IF Len(header.Extra) < extraVanity + extraSeal THEN errMissingSignature
       ELSE IF ~isEpoch /\ validatorsBytes # 0 THEN errExtraValidators
       ELSE IF isEpoch /\ validatorsBytes % AddressLength # 0 THEN errExtraValidators
       ELSE errNil

\* The largest gas limit verifyHeader accepts, 2^63 - 1; the model's
\* integers end at 2^31 - 1, so it stands for that bound.
gasLimitCap == 2147483647

\* Congress.verifyHeader(chain, header, parents) at wall-clock time t.
\* Returns [err, recents, db].
verifyHeader(header, parents, t, rc, d) ==
    LET fail(e) == [err |-> e, recents |-> rc, db |-> d]
    IN IF header.Number = NilInt THEN fail(errUnknownBlock)
       ELSE IF header.Time > t THEN fail(ErrFutureBlock)
       ELSE IF verifyExtra(header) # errNil THEN fail(verifyExtra(header))
       ELSE IF header.MixDigest # 0 THEN fail(errInvalidMixDigest)
       ELSE IF header.UncleHash # uncleHash THEN fail(errInvalidUncleHash)
       ELSE IF header.Number > 0 /\ header.Difficulty = NilInt
       THEN fail(errInvalidDifficulty)
       ELSE IF header.GasLimit > gasLimitCap THEN fail(errInvalidGasLimit)
       ELSE verifyCascadingFields(header, parents, rc, d)

-----------------------------------------------------------------------------
(* Difficulty of the local validator. *)

\* A difficulty that ignores whose turn the block is.
calcDifficultyNoTurn(snap, v) == diffNoTurn

\* calcDifficulty(snap, validator).
calcDifficulty(snap, v) ==
    IF inturn(snap, snap.Number + 1, v) THEN diffInTurn ELSE diffNoTurn

-----------------------------------------------------------------------------
(* The world state (state.StateDB) and the system contracts. A state is a  *)
(* record                                                                  *)
(*   [balance: pairs <<address, amount>> of the non-zero balances,         *)
(*    nonce: pairs <<address, nonce>> of the non-zero nonces,              *)
(*    top: the ranking of the Validators contract (in contract order),     *)
(*    active: the active set of the Validators contract,                   *)
(*    missed: pairs <<validator, missed blocks>> of the Punish contract,   *)
(*    passed: the passed proposals of the Governance contract,             *)
(*    code: the addresses the governance erased the code of,               *)
(*    initialized: whether the contracts were initialized,                 *)
(*    version: the system-contract upgrades applied].                      *)

\* The address 0x00..00 hi lo.
SysAddr(hi, lo) ==
    [i \in 1..AddressLength |->
        IF i = AddressLength - 1 THEN hi ELSE IF i = AddressLength THEN lo ELSE 0]

ValidatorsContractAddr == SysAddr(240, 0)
PunishContractAddr == SysAddr(240, 1)
ProposalAddr == SysAddr(240, 2)
SysGovContractAddr == SysAddr(240, 3)
ValidatorsV1ContractAddr == SysAddr(240, 5)
PunishV1ContractAddr == SysAddr(240, 6)
AddressListContractAddr == SysAddr(240, 4)
SysGovToAddr == SysAddr(255, 255)

\* tx.To() of a contract creation: nil.
NilTo == <<>>

\* blacklistDirection.
DirectionFrom == 0
DirectionTo == 1
DirectionBoth == 2

\* The position of the state variable devs of the AddressList contract.
DevMappingPosition == 2

\* systemcontract.SysContractVersion.
SysContractV1 == 1
SysContractV2 == 2

HashLength == 32

\* consensus.FeeRecoder, the account the fees of a block accumulate on.
FeeRecoder == [i \in 1..AddressLength |-> 255]

\* chainConfig.RedCoastBlock and IsRedCoast.
IsRedCoast(number) == number >= RedCoastBlock

GetValidatorAddr(number) ==
    IF IsRedCoast(number) THEN ValidatorsV1ContractAddr ELSE ValidatorsContractAddr

GetPunishAddr(number) ==
    IF IsRedCoast(number) THEN PunishV1ContractAddr ELSE PunishContractAddr

\* A map kept as the set of its pairs with a non-zero value.
Get(kv, k) == IF \E p \in kv : p[1] = k THEN (CHOOSE p \in kv : p[1] = k)[2] ELSE 0

Put(kv, k, v) == {p \in kv : p[1] # k} \cup (IF v = 0 THEN {} ELSE {<<k, v>>})

\* The state of the genesis block: the contracts are deployed, not
\* initialized, and one user account is funded.
GenesisState ==
    [balance |-> {<<AddrE, GenesisFunds>>}, nonce |-> {}, top |-> <<>>, active |-> <<>>,
     missed |-> {}, passed |-> <<>>, code |-> {}, initialized |-> FALSE, version |-> 0,
     blacksFrom |-> <<>>, blacksTo |-> <<>>, rules |-> <<>>, storage |-> {},
     upgrades |-> <<>>]

\* state.IntermediateRoot: the hash of the state.
IntermediateRoot(st) == Keccak256(st)

errInsufficientBalance == "insufficient balance for transfer"
errExecutionReverted == "execution reverted"
errEmptyOutput == "abi: attempting to unmarshall an empty string while arguments are expected"

\* A sequence without its element at position i, the last element moved
\* into the gap.
SwapRemove(seq, i) ==
    [k \in 1..(Len(seq) - 1) |-> IF k = i THEN seq[Len(seq)] ELSE seq[k]]

\* state.GetState and SetState on the storage of the AddressList contract:
\* 32-byte values by slot, zero where nothing is stored.
GetState(st, slot) ==
    IF \E p \in st.storage : p[1] = slot
    THEN (CHOOSE p \in st.storage : p[1] = slot)[2] ELSE Zeros(HashLength)

SetState(st, slot, value) ==
    [st EXCEPT !.storage = {p \in @ : p[1] # slot} \cup {<<slot, value>>}]

\* A uint256 below 256 as a storage word, big-endian.
Uint256(n) == Zeros(HashLength - 1) \o <<n>>

\* The slot Solidity keeps devs[addr] in: keccak256(abi.encode(addr, position)).
DevSlot(addr) ==
    Keccak256((Zeros(HashLength - AddressLength) \o addr) \o Uint256(DevMappingPosition))

\* Slot 0 of the AddressList contract: ten zero bytes, the admin, the byte
\* of enabled and the byte of initialized.
AddressListSlot0(admin, enabled, initialized) ==
    ((Zeros(10) \o admin) \o <<enabled>>) \o <<initialized>>

Contains(seq, x) == \E i \in 1..Len(seq) : seq[i] = x

\* The slots the second version of the AddressList contract keeps the
\* numbers of the blocks of the last update of the blacklist and of the
\* rules in.
BlackLastUpdatedNumberPosition == Uint256(7)
RulesLastUpdatedNumberPosition == Uint256(8)

\* The code of the AddressList contract: the admin lists an address with a
\* direction, turns the verification of developers on and names developers;
\* the lists are read. In its second version the admin sets the check of a
\* topic of an event, the rules are read one by one, and an update of the
\* blacklist or of the rules notes the number of the block, which comes as
\* the last argument of the call.
AddressListCode(st, msg) ==
    LET ok(st2, ret) == [err |-> errNil, state |-> st2, ret |-> ret]
        revert == [err |-> errExecutionReverted, state |-> st, ret |-> <<>>]
        listed(seq, addr) == IF Contains(seq, addr) THEN seq ELSE Append(seq, addr)
        ruled(seq, rule) ==
            IF \E i \in 1..Len(seq) : seq[i][1] = rule[1] /\ seq[i][2] = rule[2]
            THEN [i \in 1..Len(seq) |->
                     IF seq[i][1] = rule[1] /\ seq[i][2] = rule[2] THEN rule ELSE seq[i]]
            ELSE Append(seq, rule)
        noted(st2, slot, number) ==
            IF st.version < SysContractV2 THEN st2 ELSE SetState(st2, slot, Uint256(number))
        slot0 == GetState(st, ZeroHash)
    IN CASE msg.method = "addBlacklist" ->
              ok(noted([st EXCEPT
                          !.blacksFrom = IF msg.arg[2] \in {DirectionFrom, DirectionBoth}
                                         THEN listed(@, msg.arg[1]) ELSE @,
                          !.blacksTo = IF msg.arg[2] \in {DirectionTo, DirectionBoth}
                                       THEN listed(@, msg.arg[1]) ELSE @],
                       BlackLastUpdatedNumberPosition, msg.arg[3]), <<>>)
         [] msg.method = "getBlacksFrom" -> ok(st, st.blacksFrom)
         [] msg.method = "getBlacksTo" -> ok(st, st.blacksTo)
         [] msg.method = "addRule" ->
              IF st.version < SysContractV2 THEN ok(st, <<>>)
              ELSE ok(noted([st EXCEPT
                               !.rules = ruled(@, <<msg.arg[1], msg.arg[2], msg.arg[3]>>)],
                            RulesLastUpdatedNumberPosition, msg.arg[4]), <<>>)
         [] msg.method = "rulesLen" ->
              IF st.version < SysContractV2 THEN revert ELSE ok(st, Len(st.rules))
         [] msg.method = "getRuleByIndex" ->
              IF st.version < SysContractV2 \/ msg.arg + 1 > Len(st.rules) THEN revert
              ELSE ok(st, st.rules[msg.arg + 1])
         [] msg.method = "enableDevVerify" ->
              ok(SetState(st, ZeroHash, [slot0 EXCEPT ![HashLength - 1] = 1]), <<>>)
         [] msg.method = "addDeveloper" ->
              ok(SetState(st, DevSlot(msg.arg), Uint256(1)), <<>>)
         [] OTHER -> ok(st, <<>>)

\* What the code of a system contract does with a message, after the value
\* of the message was moved: the calls of the engine, and the calls of
\* users that change the ranking (stake) or pass a proposal (pass). A
\* contract whose code was erased does nothing, and the engine cannot
\* unpack the empty answer of a getter; the governance contract takes a
\* proposal once the upgrade of RedCoast has deployed it. Returns
\* [err, state, ret].
ContractCode(st, msg) ==
    LET ok(st2, ret) == [err |-> errNil, state |-> st2, ret |-> ret]
        revert == [err |-> errExecutionReverted, state |-> st, ret |-> <<>>]
    IN CASE msg.to \in st.code ->
              IF msg.method \in {"getTopValidators", "getPassedProposalCount",
                                 "getPassedProposalByIndex"}
              THEN [err |-> errEmptyOutput, state |-> st, ret |-> <<>>]
              ELSE ok(st, <<>>)
         [] msg.to = AddressListContractAddr /\ st.version < 1 ->
              IF msg.method \in {"getBlacksFrom", "getBlacksTo", "rulesLen", "getRuleByIndex"}
              THEN [err |-> errEmptyOutput, state |-> st, ret |-> <<>>]
              ELSE ok(st, <<>>)
         [] msg.method = "initialize" /\ msg.to = ValidatorsContractAddr ->
              IF st.initialized THEN revert
              ELSE ok([st EXCEPT !.initialized = TRUE, !.top = msg.arg, !.active = msg.arg],
                      <<>>)
         [] msg.method = "getTopValidators" -> ok(st, st.top)
         [] msg.method = "updateActiveValidatorSet" -> ok([st EXCEPT !.active = msg.arg], <<>>)
         [] msg.method = "punish" ->
              ok([st EXCEPT !.missed = Put(@, msg.arg, Get(@, msg.arg) + 1)], <<>>)
         [] msg.method = "decreaseMissedBlocksCounter" ->
              ok([st EXCEPT !.missed = {<<p[1], p[2] - 1>> : p \in {q \in @ : q[2] > 1}}],
                 <<>>)
         [] msg.method = "getPassedProposalCount" -> ok(st, Len(st.passed))
         [] msg.method = "getPassedProposalByIndex" ->
              IF msg.arg + 1 > Len(st.passed) THEN revert
              ELSE ok(st, st.passed[msg.arg + 1])
         [] msg.method = "finishProposalById" ->
              IF \E i \in 1..Len(st.passed) : st.passed[i].Id = msg.arg
              THEN ok([st EXCEPT !.passed =
                          SwapRemove(@, CHOOSE i \in 1..Len(@) : @[i].Id = msg.arg)],
                      <<>>)
              ELSE revert
         [] msg.to = AddressListContractAddr /\ st.version >= 1 ->
              AddressListCode(st, msg)
         [] msg.method = "stake" -> ok([st EXCEPT !.top = msg.arg], <<>>)
         [] msg.method = "pass" ->
              IF Contains(st.upgrades, <<"SysGov", "Update">>)
              THEN ok([st EXCEPT !.passed = Append(@, msg.arg)], <<>>)
              ELSE ok(st, <<>>)
         [] OTHER -> ok(st, <<>>)

\* vmcaller.ExecuteMsg: evm.Call of the message on the state. The value
\* is moved from the caller to the callee, then the code of the callee
\* runs; a call that fails leaves the state as it was. faults are the
\* methods whose call reverts in this execution. Returns [err, state, ret].
ExecuteMsg(st, msg, faults) ==
    LET debited == Put(st.balance, msg.from, Get(st.balance, msg.from) - msg.value)
        moved == [st EXCEPT !.balance = Put(debited, msg.to, Get(debited, msg.to) + msg.value)]
        kept(r) == IF r.err # errNil THEN [r EXCEPT !.state = st] ELSE r
    IN IF Get(st.balance, msg.from) < msg.value
       THEN [err |-> errInsufficientBalance, state |-> st, ret |-> <<>>]
       ELSE IF msg.method \in faults
       THEN [err |-> errExecutionReverted, state |-> st, ret |-> <<>>]
       ELSE kept(ContractCode(moved, msg))

\* vmcaller.NewLegacyMessage, with the method and argument packed in data.
NewLegacyMessage(from, to, value, method, arg) ==
    [from |-> from, to |-> to, value |-> value, method |-> method, arg |-> arg]

-----------------------------------------------------------------------------
(* The steps of Finalize. They run in a context                            *)
(*   [err, state, calls, recents, db, txs, receipts, pIds, ret]:           *)
(* the error so far, the state being built, the system messages executed,  *)
(* the snapshot cache and disk, the transactions and receipts of the       *)
(* block, the proposals executed, and what the last call returned.         *)

errPanic == "panic"
errMissingState == "missing trie node"
errInvalidSender == "invalid sender for system governance transaction"
errDataMismatch == "data missmatch"

NewContext(st, txs, rc, d) ==
    [err |-> errNil, state |-> st, calls |-> <<>>, recents |-> rc, db |-> d,
     txs |-> txs, receipts |-> <<>>, pIds |-> <<>>, ret |-> <<>>, blacklists |-> {},
     eventCheckRules |-> {}]

Fail(ctx, e) == [ctx EXCEPT !.err = e]

\* One message executed on the state of the context and logged.
SystemCall(ctx, msg, faults) ==
    LET returned(r) == [ctx EXCEPT !.err = r.err, !.state = r.state,
                                   !.calls = Append(@, msg), !.ret = r.ret]
    IN returned(ExecuteMsg(ctx.state, msg, faults))

\* Messages executed in order, up to the first that fails.
RECURSIVE SystemCalls(_, _, _)
SystemCalls(ctx, msgs, faults) ==
    IF msgs = <<>> \/ ctx.err # errNil THEN ctx
    ELSE SystemCalls(SystemCall(ctx, Head(msgs), faults), Tail(msgs), faults)

\* c.snapshot called from a step: the caches of the context move on.
ContextSnapshot(ctx, number, hash) ==
    LET taken(s) == [ctx EXCEPT !.err = s.err, !.recents = s.recents, !.db = s.db,
                                !.ret = s.snap]
    IN taken(snapshot(number, hash, <<>>, ctx.recents, ctx.db))

\* An initialization that takes any number of genesis validators.
initializeSystemContractsAnyLength(ctx, header, faults) ==
    LET init(to, arg) == NewLegacyMessage(header.Coinbase, to, 0, "initialize", arg)
        initialize(c1, genesisValidators) ==
            IF c1.err # errNil THEN c1
            ELSE SystemCalls(c1, <<init(ValidatorsContractAddr, genesisValidators),
                                   init(PunishContractAddr, <<>>),
                                   init(ProposalAddr, genesisValidators)>>, faults)
        from(c1) == initialize(c1, SnapValidators(c1.ret))
    IN from(ContextSnapshot(ctx, 0, header.ParentHash))

initializeSystemContracts(ctx, header, faults) ==
    LET init(to, arg) == NewLegacyMessage(header.Coinbase, to, 0, "initialize", arg)
        initialize(c1, genesisValidators) ==
            IF c1.err # errNil THEN c1
            ELSE IF Len(genesisValidators) = 0 \/ Len(genesisValidators) > maxValidators
            THEN Fail(c1, errInvalidValidatorsLength)
            ELSE SystemCalls(c1, <<init(ValidatorsContractAddr, genesisValidators),
                                   init(PunishContractAddr, <<>>),
                                   init(ProposalAddr, genesisValidators)>>, faults)
        from(c1) == initialize(c1, SnapValidators(c1.ret))
    IN from(ContextSnapshot(ctx, 0, header.ParentHash))

punishValidator(ctx, val, header, faults) ==
    SystemCall(ctx, NewLegacyMessage(header.Coinbase, GetPunishAddr(header.Number), 0,
                                     "punish", val), faults)

\* The punishment that does not look at the recent signers.
tryPunishValidatorAlways(ctx, header, faults) ==
    LET number == header.Number
        pick(c1, validators) ==
            IF c1.err # errNil THEN c1
            ELSE IF Len(validators) = 0 THEN Fail(c1, errPanic)
            ELSE punishValidator(c1, validators[(number % Len(validators)) + 1], header,
                                 faults)
        from(c1) == pick(c1, SnapValidators(c1.ret))
    IN from(ContextSnapshot(ctx, number - 1, header.ParentHash))

\* Go panics on the index when the snapshot has no validators.
tryPunishValidator(ctx, header, faults) ==
    LET number == header.Number
        punish(c1, outTurnValidator) ==
            IF \E r \in c1.ret.Recents : r[2] = outTurnValidator THEN c1
            ELSE punishValidator(c1, outTurnValidator, header, faults)
        pick(c1, validators) ==
            IF c1.err # errNil THEN c1
            ELSE IF Len(validators) = 0 THEN Fail(c1, errPanic)
            ELSE punish(c1, validators[(number % Len(validators)) + 1])
        from(c1) == pick(c1, SnapValidators(c1.ret))
    IN from(ContextSnapshot(ctx, number - 1, header.ParentHash))

\* A reward that credits the coinbase and leaves the fee recorder as it is.
trySendBlockRewardUnreset(ctx, header, faults) ==
    LET fee == Get(ctx.state.balance, FeeRecoder)
        added == Put(ctx.state.balance, header.Coinbase,
                     Get(ctx.state.balance, header.Coinbase) + fee)
    IN IF fee <= 0 THEN ctx
       ELSE SystemCall([ctx EXCEPT !.state.balance = added],
                       NewLegacyMessage(header.Coinbase, GetValidatorAddr(header.Number),
                                        fee, "distributeBlockReward", <<>>), faults)

trySendBlockReward(ctx, header, faults) ==
    LET fee == Get(ctx.state.balance, FeeRecoder)
        added == Put(ctx.state.balance, header.Coinbase,
                     Get(ctx.state.balance, header.Coinbase) + fee)
    IN IF fee <= 0 THEN ctx
       ELSE SystemCall([ctx EXCEPT !.state.balance = Put(added, FeeRecoder, 0)],
                       NewLegacyMessage(header.Coinbase, GetValidatorAddr(header.Number),
                                        fee, "distributeBlockReward", <<>>), faults)

\* c.stateFn(root): the state with this root, if the node has it.
stateFn(root) ==
    IF Len(root) = 1 /\ root[1] \in states
    THEN [err |-> errNil, state |-> root[1]]
    ELSE [err |-> errMissingState, state |-> GenesisState]

\* getTopValidators(chain, header): the ranking of the Validators contract
\* in the state of the parent, sorted. Returns [err, validators].
getTopValidators(header, faults) ==
    LET fail(e) == [err |-> e, validators |-> <<>>]
        sorted(r) == IF r.err # errNil THEN fail(r.err)
                     ELSE [err |-> errNil, validators |-> validatorsAscending(r.ret)]
        read(parent, statedb) ==
            IF statedb.err # errNil THEN fail(statedb.err)
            ELSE sorted(ExecuteMsg(statedb.state,
                                   NewLegacyMessage(header.Coinbase,
                                                    GetValidatorAddr(parent.Number), 0,
                                                    "getTopValidators", <<>>), faults))
        from(found) == IF found = <<>> THEN fail(ErrUnknownAncestor)
                       ELSE read(found[1], stateFn(found[1].Root))
    IN from(GetHeader(header.ParentHash, header.Number - 1))

updateValidators(ctx, vals, header, faults) ==
    SystemCall(ctx, NewLegacyMessage(header.Coinbase, GetValidatorAddr(header.Number), 0,
                                     "updateActiveValidatorSet", vals), faults)

decreaseMissedBlocksCounter(ctx, header, faults) ==
    SystemCall(ctx, NewLegacyMessage(header.Coinbase, GetPunishAddr(header.Number), 0,
                                     "decreaseMissedBlocksCounter", Epoch), faults)

\* doSomethingAtEpoch: the new validators are left in ret.
doSomethingAtEpoch(ctx, header, faults) ==
    LET done(c, validators) == IF c.err # errNil THEN c ELSE [c EXCEPT !.ret = validators]
        decrease(c) == IF c.err # errNil THEN c
                       ELSE decreaseMissedBlocksCounter(c, header, faults)
        update(top) ==
            IF top.err # errNil THEN Fail(ctx, top.err)
            ELSE done(decrease(updateValidators(ctx, top.validators, header, faults)),
                      top.validators)
    IN update(getTopValidators(header, faults))

-----------------------------------------------------------------------------
(* Governance proposals and system transactions. A transaction is a record *)
(* [from, to, value, gasPrice, nonce, data]; data is [kind, arg], for a    *)
(* system transaction the RLP of a proposal [Id, Action, From, To, Value,  *)
(* Data], whose Data is [kind, arg] again.                                 *)

\* The contracts that have code in the genesis state.
SystemContracts ==
    {ValidatorsContractAddr, PunishContractAddr, ProposalAddr, SysGovContractAddr,
     ValidatorsV1ContractAddr, PunishV1ContractAddr}

\* chainConfig.SophonBlock of the configuration the engine was built with:
\* nil when the fork is not scheduled.
SophonBlock == config.SophonBlock

IsSophon(number) == SophonBlock # NilInt /\ SophonBlock <= number

\* rlp.EncodeToBytes(prop), the data of a system transaction (RLP is
\* injective: the proposal itself, tagged).
EncodeProposal(prop) == [kind |-> "proposal", arg |-> prop]

SysGovMessage(header, method, arg) ==
    NewLegacyMessage(header.Coinbase, SysGovContractAddr, 0, method, arg)

\* An execution whose receipt of an erasure is always successful.
executeProposalMsgErased(ctx, header, prop, txHash, faults) ==
    LET msg == NewLegacyMessage(prop.From, prop.To, prop.Value, prop.Data.kind,
                                prop.Data.arg)
        receipt(c, failed) ==
            [c EXCEPT !.receipts = Append(@, [failed |-> failed, TxHash |-> txHash])]
        called(r) == receipt([ctx EXCEPT !.state = r.state, !.calls = Append(@, msg)],
                             r.err # errNil)
    IN CASE prop.Action = 0 -> called(ExecuteMsg(ctx.state, msg, faults))
         [] prop.Action = 1 -> receipt([ctx EXCEPT !.state.code = @ \cup {prop.To}], FALSE)
         [] OTHER -> receipt(ctx, TRUE)

\* executeProposalMsg: the proposal acts on the state and a receipt is
\* appended, with the hash of the system transaction; a failed call makes
\* a failed receipt, no error.
executeProposalMsg(ctx, header, prop, txHash, faults) ==
    LET msg == NewLegacyMessage(prop.From, prop.To, prop.Value, prop.Data.kind,
                                prop.Data.arg)
        receipt(c, failed) ==
            [c EXCEPT !.receipts = Append(@, [failed |-> failed, TxHash |-> txHash])]
        called(r) == receipt([ctx EXCEPT !.state = r.state, !.calls = Append(@, msg)],
                             r.err # errNil)
    IN CASE prop.Action = 0 -> called(ExecuteMsg(ctx.state, msg, faults))
         [] prop.Action = 1 ->
              receipt([ctx EXCEPT !.state.code = @ \cup {prop.To}],
                      ~(prop.To \in SystemContracts /\ prop.To \notin ctx.state.code))
         [] OTHER -> receipt(ctx, TRUE)

\* An execution by the producer that leaves its nonce as it was.
executeProposalUnraised(ctx, header, prop, val, faults) ==
    LET nonce == Get(ctx.state.nonce, val)
        tx == [from |-> val, to |-> SysGovToAddr,
               value |-> IF IsSophon(header.Number) THEN 0 ELSE prop.Value,
               gasPrice |-> 0, nonce |-> nonce, data |-> EncodeProposal(prop)]
    IN executeProposalMsg([ctx EXCEPT !.txs = Append(@, tx)], header, prop, Keccak256(tx),
                          faults)

\* executeProposal: the producer val makes and signs the system transaction
\* of a proposal, raises its own nonce and executes the proposal.
executeProposal(ctx, header, prop, val, faults) ==
    LET nonce == Get(ctx.state.nonce, val)
        tx == [from |-> val, to |-> SysGovToAddr,
               value |-> IF IsSophon(header.Number) THEN 0 ELSE prop.Value,
               gasPrice |-> 0, nonce |-> nonce, data |-> EncodeProposal(prop)]
    IN executeProposalMsg([ctx EXCEPT !.state.nonce = Put(@, val, nonce + 1),
                                      !.txs = Append(@, tx)], header, prop, Keccak256(tx),
                          faults)

\* A replay that does not compare the data of the system transaction with
\* the proposal.
replayProposalUncompared(ctx, header, prop, tx, faults) ==
    LET sender == tx.from
    IN IF sender # header.Coinbase THEN Fail(ctx, errInvalidSender)
       ELSE executeProposalMsg(
                [ctx EXCEPT !.state.nonce = Put(@, sender, Get(@, sender) + 1),
                            !.txs = Append(@, tx)], header, prop, Keccak256(tx), faults)

\* replayProposal: the verifier checks the system transaction against the
\* proposal, raises the nonce of the sender and executes the proposal.
replayProposal(ctx, header, prop, tx, faults) ==
    LET sender == tx.from
    IN IF sender # header.Coinbase THEN Fail(ctx, errInvalidSender)
       ELSE IF EncodeProposal(prop) # tx.data THEN Fail(ctx, errDataMismatch)
       ELSE executeProposalMsg(
                [ctx EXCEPT !.state.nonce = Put(@, sender, Get(@, sender) + 1),
                            !.txs = Append(@, tx)], header, prop, Keccak256(tx), faults)

\* The first loop of the governance step, from index i on: each passed
\* proposal is fetched and executed by the producer val, or (val is the
\* zero address) replayed against its system transaction by a verifier.
RECURSIVE runProposals(_, _, _, _, _, _, _)
runProposals(ctx, header, systemTxs, val, i, count, faults) ==
    LET next(done, id) ==
            IF done.err # errNil THEN done
            ELSE runProposals([done EXCEPT !.pIds = Append(@, id)], header, systemTxs,
                              val, i + 1, count, faults)
        run(got) ==
            IF got.err # errNil THEN got
            ELSE next(IF val # ZeroAddr
                      THEN executeProposal(got, header, got.ret, val, faults)
                      ELSE replayProposal(got, header, got.ret, systemTxs[i + 1], faults),
                      got.ret.Id)
    IN IF i >= count \/ ctx.err # errNil THEN ctx
       ELSE run(SystemCall(ctx, SysGovMessage(header, "getPassedProposalByIndex", i),
                           faults))

\* A second loop that finishes the executed proposals last to first.
finishProposalsReversed(ctx, header, faults) ==
    SystemCalls(ctx, [i \in 1..Len(ctx.pIds) |->
                        SysGovMessage(header, "finishProposalById",
                                      ctx.pIds[Len(ctx.pIds) + 1 - i])], faults)

\* The second loop: every executed proposal is finished, in the same order.
finishProposals(ctx, header, faults) ==
    SystemCalls(ctx, [i \in 1..Len(ctx.pIds) |->
                        SysGovMessage(header, "finishProposalById", ctx.pIds[i])], faults)

\* A governance step whose verifier does nothing when the count of the
\* system transactions is not the count of the passed proposals.
governanceUncounted(ctx, header, systemTxs, val, faults) ==
    LET finish(c) == IF c.err # errNil THEN c ELSE finishProposals(c, header, faults)
        run(counted) ==
            IF counted.err # errNil THEN counted
            ELSE IF val = ZeroAddr /\ counted.ret # Len(systemTxs)
            THEN counted
            ELSE finish(runProposals(counted, header, systemTxs, val, 0, counted.ret,
                                     faults))
    IN run(SystemCall(ctx, SysGovMessage(header, "getPassedProposalCount", <<>>), faults))

\* The governance step of Finalize (val is the zero address) and of
\* FinalizeAndAssemble (val produces).
governance(ctx, header, systemTxs, val, faults) ==
    LET finish(c) == IF c.err # errNil THEN c ELSE finishProposals(c, header, faults)
        run(counted) ==
            IF counted.err # errNil THEN counted
            ELSE IF val = ZeroAddr /\ counted.ret # Len(systemTxs)
            THEN Fail(counted, errInvalidSysGovCount)
            ELSE finish(runProposals(counted, header, systemTxs, val, 0, counted.ret,
                                     faults))
    IN run(SystemCall(ctx, SysGovMessage(header, "getPassedProposalCount", <<>>), faults))

-----------------------------------------------------------------------------
(* Finalize (a verifier replays the block) and FinalizeAndAssemble (the     *)
(* producer builds it). Both return the context; on success ret is the      *)
(* header with its state root and uncle hash set.                           *)

EmbeddedValidators(header) == Slice(header.Extra, extraVanity, Len(header.Extra) - extraSeal)

\* The comparison of the epoch step of Finalize ignores the validators.
epochCompareLength(header, newValidators) ==
    Len(EmbeddedValidators(header)) = Len(AddrListBytes(newValidators))

\* The comparison of the epoch step of Finalize: the bytes the header
\* embeds against the bytes of the new validators.
epochCompare(header, newValidators) ==
    EmbeddedValidators(header) = AddrListBytes(newValidators)

\* The epoch step of Finalize: the new set is installed and compared with
\* the bytes the header embeds. Go panics when the extra-data is too short
\* to slice.
epochCheck(ctx, header, faults) ==
    LET compare(e) ==
            IF e.err # errNil THEN e
            ELSE IF Len(header.Extra) - extraSeal < extraVanity THEN Fail(e, errPanic)
            ELSE IF ~epochCompare(header, e.ret) THEN Fail(e, errInvalidExtraValidators)
            ELSE e
    IN compare(doSomethingAtEpoch(ctx, header, faults))

\* The end of both: the root of the state and the uncle hash are set.
SetRoot(ctx, header) ==
    IF ctx.err # errNil THEN ctx
    ELSE [ctx EXCEPT !.ret = [header EXCEPT !.Root = IntermediateRoot(ctx.state),
                                            !.UncleHash = uncleHash]]

\* The steps both share with the reward before the punishment.
\* (firstSteps follows.)
\* The steps both share, in order: the initialization at block 1, the
\* punishment on an out-of-turn block, the reward on a block with
\* transactions. A step is skipped after an error.
firstStepsRewardFirst(header, st, txs, rc, d, faults) ==
    LET initialized(c) ==
            IF header.Number = 1 THEN initializeSystemContracts(c, header, faults) ELSE c
        punished(c) ==
            IF c.err = errNil /\ header.Difficulty # diffInTurn
            THEN tryPunishValidator(c, header, faults) ELSE c
        rewarded(c) ==
            IF c.err = errNil /\ Len(txs) > 0
            THEN trySendBlockReward(c, header, faults) ELSE c
    IN punished(rewarded(initialized(NewContext(st, txs, rc, d))))

firstSteps(header, st, txs, rc, d, faults) ==
    LET initialized(c) ==
            IF header.Number = 1 THEN initializeSystemContracts(c, header, faults) ELSE c
        punished(c) ==
            IF c.err = errNil /\ header.Difficulty # diffInTurn
            THEN tryPunishValidator(c, header, faults) ELSE c
        rewarded(c) ==
            IF c.err = errNil /\ Len(txs) > 0
            THEN trySendBlockReward(c, header, faults) ELSE c
    IN rewarded(punished(initialized(NewContext(st, txs, rc, d))))

Finalize(header, st, txs, systemTxs, rc, d, faults) ==
    LET epoch(c) ==
            IF c.err = errNil /\ header.Number % Epoch = 0
            THEN epochCheck(c, header, faults) ELSE c
        governed(c) ==
            IF c.err = errNil /\ IsRedCoast(header.Number)
            THEN governance(c, header, systemTxs, ZeroAddr, faults) ELSE c
    IN SetRoot(governed(epoch(firstSteps(header, st, txs, rc, d, faults))), header)

\* The first four steps panic on an error; the governance step, taken only
\* by a node that can sign (val is not the zero address), returns it.
FinalizeAndAssemble(header, st, txs, rc, d, val, faults) ==
    LET epoch(c) ==
            IF c.err = errNil /\ header.Number % Epoch = 0
            THEN doSomethingAtEpoch(c, header, faults) ELSE c
        governed(c) ==
            IF c.err # errNil THEN Fail(c, errPanic)
            ELSE IF val # ZeroAddr /\ IsRedCoast(header.Number)
            THEN governance(c, header, <<>>, val, faults) ELSE c
    IN SetRoot(governed(epoch(firstSteps(header, st, txs, rc, d, faults))), header)

-----------------------------------------------------------------------------
(* Blocks [header, txs] and StateProcessor.Process.                         *)

errInsufficientFunds == "insufficient funds for gas * price + value"
errInvalidRoot == "invalid merkle root"

errUpgrade == "upgrade failed"

\* The upgrades of a version, in the order ApplySystemContractUpgrade
\* lists them.
sysContracts(version) ==
    IF version = SysContractV1 THEN <<"SysGov", "AddressList", "ValidatorsV1", "PunishV1">>
    ELSE <<"AddressListV2", "ValidatorsV2">>

\* contract.Update and contract.Execute of the upgrade name: the state
\* notes the step; the AddressList contract gets its code with Update and
\* its first slot with Execute, the second version its code with Update.
Update(name, st) ==
    LET noted == [st EXCEPT !.upgrades = Append(@, <<name, "Update">>)]
    IN CASE name = "AddressList" -> [noted EXCEPT !.version = 1]
         [] name = "AddressListV2" -> [noted EXCEPT !.version = 2]
         [] OTHER -> noted

Execute(name, st) ==
    LET noted == [st EXCEPT !.upgrades = Append(@, <<name, "Execute">>)]
    IN IF name = "AddressList"
       THEN SetState(noted, ZeroHash, AddressListSlot0(AddrE, 0, 1))
       ELSE noted

\* The loop of ApplySystemContractUpgrade over the upgrades left, in an
\* execution where the steps of faults return an error: it returns at the
\* first error. Returns [err, state].
RECURSIVE applyUpgrades(_, _, _)
applyUpgrades(contracts, st, faults) ==
    LET name == Head(contracts)
    IN IF contracts = <<>> THEN [err |-> errNil, state |-> st]
       ELSE IF <<name, "Update">> \in faults THEN [err |-> errUpgrade, state |-> st]
       ELSE IF <<name, "Execute">> \in faults
       THEN [err |-> errUpgrade, state |-> Update(name, st)]
       ELSE applyUpgrades(Tail(contracts), Execute(name, Update(name, st)), faults)

ApplySystemContractUpgrade(version, st, header, faults) ==
    applyUpgrades(sysContracts(version), st, faults)

\* A PreHandle that upgrades at every height from the fork on.
PreHandleFromFork(st, header, faults) ==
    IF RedCoastBlock # NilInt /\ RedCoastBlock = header.Number
    THEN ApplySystemContractUpgrade(SysContractV1, st, header, faults)
    ELSE IF SophonBlock # NilInt /\ SophonBlock <= header.Number
    THEN ApplySystemContractUpgrade(SysContractV2, st, header, faults)
    ELSE [err |-> errNil, state |-> st]

\* Congress.PreHandle: the upgrade of the block, in an execution where the
\* steps of faults return an error. Returns [err, state].
PreHandle(st, header, faults) ==
    IF RedCoastBlock # NilInt /\ RedCoastBlock = header.Number
    THEN ApplySystemContractUpgrade(SysContractV1, st, header, faults)
    ELSE IF SophonBlock # NilInt /\ SophonBlock = header.Number
    THEN ApplySystemContractUpgrade(SysContractV2, st, header, faults)
    ELSE [err |-> errNil, state |-> st]

\* A classification that does not look at the gas price.
IsSysTransactionAnyPrice(sender, tx, header) ==
    IF tx.to = NilTo THEN FALSE
    ELSE sender = header.Coinbase /\ tx.to \in {SysGovToAddr, SysGovContractAddr}

IsSysTransaction(sender, tx, header) ==
    IF tx.to = NilTo THEN FALSE
    ELSE \/ sender = header.Coinbase /\ tx.to = SysGovToAddr /\ tx.gasPrice = 0
         \/ sender = header.Coinbase /\ tx.to = SysGovContractAddr

-----------------------------------------------------------------------------
(* The access controller: the blacklist and the developers.                 *)

ErrAddressDenied == "ErrAddressDenied"

\* A Go map as the set of its pairs.
MapHas(m, k) == \E p \in m : p[1] = k

MapGet(m, k) == (CHOOSE p \in m : p[1] = k)[2]

MapSet(m, k, v) == {p \in m : p[1] # k} \cup {<<k, v>>}

\* The second loop of getBlacklist: every address of tos is To, or Both
\* when the map holds it already.
RECURSIVE blacklistOfTos(_, _)
blacklistOfTos(m, tos) ==
    IF tos = <<>> THEN m
    ELSE blacklistOfTos(MapSet(m, Head(tos), IF MapHas(m, Head(tos)) THEN DirectionBoth
                                             ELSE DirectionTo), Tail(tos))

\* Hash.Big().Uint64() of a storage word: its low eight bytes as a number.
BigUint64(word) ==
    LET term(k) == IF word[HashLength - k] = 0 THEN 0 ELSE word[HashLength - k] * 256^k
    IN term(0) + term(1) + term(2) + term(3) + term(4) + term(5) + term(6) + term(7)

lastBlacklistUpdatedNumber(st) == BigUint64(GetState(st, BlackLastUpdatedNumberPosition))

lastRulesUpdatedNumber(st) == BigUint64(GetState(st, RulesLastUpdatedNumberPosition))

\* An entry carried over from the grandparent however recent the last
\* update is.
carriedOverAlways(header, lastUpdated, cache) ==
    LET parent == GetHeader(header.ParentHash, header.Number - 1)
    IN IF header.Number >= 2
       THEN IF parent # <<>> /\ MapHas(cache, parent[1].ParentHash)
            THEN <<MapGet(cache, parent[1].ParentHash)>>
            ELSE <<>>
       ELSE <<>>

\* The map getBlacklist and getEventCheckRules carry over without a read
\* of the contract: when the number of the header is more than one past the
\* last update, the chain holds the parent and the cache the entry of the
\* parent hash of the parent, that entry. <<m>>, or <<>> for none.
carriedOver(header, lastUpdated, cache) ==
    LET parent == GetHeader(header.ParentHash, header.Number - 1)
    IN IF header.Number >= 2 /\ header.Number > lastUpdated + 1
       THEN IF parent # <<>> /\ MapHas(cache, parent[1].ParentHash)
            THEN <<MapGet(cache, parent[1].ParentHash)>>
            ELSE <<>>
       ELSE <<>>

\* The read of getBlacklist: the map built from the lists the AddressList
\* contract returns on parentState, in an execution where the calls of
\* faults fail. Returns [err, m].
readBlacklist(header, parentState, faults) ==
    LET get(method) ==
            ExecuteMsg(parentState, NewLegacyMessage(header.Coinbase, AddressListContractAddr,
                                                     0, method, <<>>), faults)
        both(froms, tos) ==
            IF froms.err # errNil THEN [err |-> froms.err, m |-> {}]
            ELSE IF tos.err # errNil THEN [err |-> tos.err, m |-> {}]
            ELSE [err |-> errNil,
                  m |-> blacklistOfTos({<<froms.ret[i], DirectionFrom>> :
                                           i \in 1..Len(froms.ret)}, tos.ret)]
    IN both(get("getBlacksFrom"), get("getBlacksTo"))

\* The part of getBlacklist under c.blLock, after the second look at the
\* cache: past the Sophon block the map carried over, else the map read,
\* which is cached. Returns [err, m, cache].
populateBlacklist(header, parentState, cache) ==
    LET added(m) == [err |-> errNil, m |-> m, cache |-> MapSet(cache, header.ParentHash, m)]
        built(r) == IF r.err # errNil THEN [err |-> r.err, m |-> {}, cache |-> cache]
                    ELSE added(r.m)
        carried(c) == IF c # <<>> THEN added(c[1])
                      ELSE built(readBlacklist(header, parentState, {}))
    IN IF SophonBlock # NilInt /\ header.Number > SophonBlock
       THEN carried(carriedOver(header, lastBlacklistUpdatedNumber(parentState), cache))
       ELSE built(readBlacklist(header, parentState, {}))

\* getBlacklist of one caller at a time: the map cached for the parent
\* hash, or the map that populateBlacklist leaves in the cache. Returns
\* [err, m, cache].
getBlacklist(header, parentState, cache) ==
    IF MapHas(cache, header.ParentHash)
    THEN [err |-> errNil, m |-> MapGet(cache, header.ParentHash), cache |-> cache]
    ELSE populateBlacklist(header, parentState, cache)

\* getEventCheckRulesLen: what rulesLen returns. Returns [err, ret].
getEventCheckRulesLen(header, parentState, faults) ==
    ExecuteMsg(parentState, NewLegacyMessage(header.Coinbase, AddressListContractAddr, 0,
                                             "rulesLen", <<>>), faults)

\* The loop of getEventCheckRules from index i: the rule of the signature
\* of each answer of getRuleByIndex gets the check type at the index of the
\* topic. Returns [err, m].
RECURSIVE rulesFrom(_, _, _, _, _, _)
rulesFrom(rules, i, cnt, header, parentState, faults) ==
    LET checks(sig) == IF MapHas(rules, sig) THEN MapGet(rules, sig).Checks ELSE {}
        with(ret) ==
            MapSet(rules, ret[1],
                   [EventSig |-> ret[1], Checks |-> MapSet(checks(ret[1]), ret[2], ret[3])])
        next(r) == IF r.err # errNil THEN [err |-> r.err, m |-> {}]
                   ELSE rulesFrom(with(r.ret), i + 1, cnt, header, parentState, faults)
    IN IF ~(i < cnt) THEN [err |-> errNil, m |-> rules]
       ELSE next(ExecuteMsg(parentState,
                            NewLegacyMessage(header.Coinbase, AddressListContractAddr, 0,
                                             "getRuleByIndex", i), faults))

\* The read of getEventCheckRules: the map built from the rules the
\* AddressList contract returns on parentState, in an execution where the
\* calls of faults fail. Returns [err, m].
readEventCheckRules(header, parentState, faults) ==
    LET counted(cnt) == IF cnt.err # errNil THEN [err |-> cnt.err, m |-> {}]
                        ELSE rulesFrom({}, 0, cnt.ret, header, parentState, faults)
    IN counted(getEventCheckRulesLen(header, parentState, faults))

\* The part of getEventCheckRules under c.rulesLock, after the second look
\* at the cache. Returns [err, m, cache].
populateEventCheckRules(header, parentState, cache) ==
    LET added(m) == [err |-> errNil, m |-> m, cache |-> MapSet(cache, header.ParentHash, m)]
        built(r) == IF r.err # errNil THEN [err |-> r.err, m |-> {}, cache |-> cache]
                    ELSE added(r.m)
        carried(c) == IF c # <<>> THEN added(c[1])
                      ELSE built(readEventCheckRules(header, parentState, {}))
    IN carried(carriedOver(header, lastRulesUpdatedNumber(parentState), cache))

\* getEventCheckRules of one caller at a time. Returns [err, m, cache].
getEventCheckRules(header, parentState, cache) ==
    IF MapHas(cache, header.ParentHash)
    THEN [err |-> errNil, m |-> MapGet(cache, header.ParentHash), cache |-> cache]
    ELSE populateEventCheckRules(header, parentState, cache)

\* CreateEvmExtraValidator: past the Sophon block the validator of the
\* blacklist and of the rules of the block, nil when one of them fails.
\* Returns [validator, blacklists, eventCheckRules], validator <<>> (nil) or
\* <<[blacks, rules]>>.
CreateEvmExtraValidator(header, parentState, bl, rl) ==
    LET none(b, r) == [validator |-> <<>>, blacklists |-> b, eventCheckRules |-> r]
        ruled(blacks, rules) ==
            IF rules.err # errNil THEN none(blacks.cache, rl)
            ELSE [validator |-> <<[blacks |-> blacks.m, rules |-> rules.m]>>,
                  blacklists |-> blacks.cache, eventCheckRules |-> rules.cache]
        listed(blacks) ==
            IF blacks.err # errNil THEN none(bl, rl)
            ELSE ruled(blacks, getEventCheckRules(header, parentState, rl))
    IN IF SophonBlock # NilInt /\ SophonBlock < header.Number
       THEN listed(getBlacklist(header, parentState, bl))
       ELSE none(bl, rl)

\* A validation that denies every listed address, whatever its direction.
ValidateTxAnyDirection(sender, tx, header, parentState, cache) ==
    LET checked(g) ==
            [err |-> IF g.err # errNil THEN g.err
                     ELSE IF MapHas(g.m, sender) \/ (tx.to # NilTo /\ MapHas(g.m, tx.to))
                     THEN ErrAddressDenied
                     ELSE errNil,
             cache |-> g.cache]
    IN IF RedCoastBlock # NilInt /\ RedCoastBlock < header.Number
       THEN checked(getBlacklist(header, parentState, cache))
       ELSE [err |-> errNil, cache |-> cache]

\* A validation that looks at the blacklist from the RedCoast block on.
ValidateTxFromRedCoast(sender, tx, header, parentState, cache) ==
    LET checked(g) ==
            [err |-> IF g.err # errNil THEN g.err
                     ELSE IF MapHas(g.m, sender) /\ MapGet(g.m, sender) # DirectionTo
                     THEN ErrAddressDenied
                     ELSE IF /\ tx.to # NilTo
                             /\ MapHas(g.m, tx.to)
                             /\ MapGet(g.m, tx.to) # DirectionFrom
                     THEN ErrAddressDenied
                     ELSE errNil,
             cache |-> g.cache]
    IN IF RedCoastBlock # NilInt /\ RedCoastBlock <= header.Number
       THEN checked(getBlacklist(header, parentState, cache))
       ELSE [err |-> errNil, cache |-> cache]

\* ValidateTx: after the RedCoast block, a sender listed From or Both and a
\* recipient listed To or Both are denied. Returns [err, cache].
ValidateTx(sender, tx, header, parentState, cache) ==
    LET checked(g) ==
            [err |-> IF g.err # errNil THEN g.err
                     ELSE IF MapHas(g.m, sender) /\ MapGet(g.m, sender) # DirectionTo
                     THEN ErrAddressDenied
                     ELSE IF /\ tx.to # NilTo
                             /\ MapHas(g.m, tx.to)
                             /\ MapGet(g.m, tx.to) # DirectionFrom
                     THEN ErrAddressDenied
                     ELSE errNil,
             cache |-> g.cache]
    IN IF RedCoastBlock # NilInt /\ RedCoastBlock < header.Number
       THEN checked(getBlacklist(header, parentState, cache))
       ELSE [err |-> errNil, cache |-> cache]

\* A check of the byte of initialized in place of the byte of enabled.
isInitializedByte(st) == GetState(st, ZeroHash)[HashLength] = 1

\* isDeveloperVerificationEnabled: byte 30 of slot 0 is 0x01.
isDeveloperVerificationEnabled(st) == GetState(st, ZeroHash)[(HashLength - 2) + 1] = 1

\* calcSlotOfDevMappingKey: the hash of the address as a word and of the
\* position as a big-endian uint16 in the last two bytes of a word.
calcSlotOfDevMappingKey(addr) ==
    Keccak256((Zeros(HashLength - AddressLength) \o addr)
                \o (Zeros(HashLength - 2)
                      \o <<DevMappingPosition \div 256, DevMappingPosition % 256>>))

\* CanCreate: whether addr may create a contract at height; a stored word
\* that is not zero means true.
CanCreate(st, addr, height, cfg) ==
    IF IsRedCoast(height) /\ cfg.EnableDevVerification
    THEN IF isDeveloperVerificationEnabled(st)
         THEN \E i \in 1..HashLength : GetState(st, calcSlotOfDevMappingKey(addr))[i] # 0
         ELSE TRUE
    ELSE TRUE

-----------------------------------------------------------------------------

\* applyTransaction: the sender pays value and fee (one unit of gas at the
\* gas price), the fee goes to the fee recorder, the nonce of the sender
\* rises and the call runs; a call that fails keeps fee and nonce.
\* Returns [err, state], and with no error failed, the status of the
\* receipt.
applyTransaction(st, tx) ==
    LET paid == Put(st.balance, tx.from, Get(st.balance, tx.from) - tx.gasPrice)
        bought == [st EXCEPT !.balance = Put(paid, FeeRecoder,
                                             Get(paid, FeeRecoder) + tx.gasPrice),
                             !.nonce = Put(@, tx.from, Get(@, tx.from) + 1)]
        executed(r) == [err |-> errNil, state |-> r.state, failed |-> r.err # errNil]
    IN IF Get(st.balance, tx.from) < tx.value + tx.gasPrice
       THEN [err |-> errInsufficientFunds, state |-> st]
       ELSE executed(ExecuteMsg(bought, NewLegacyMessage(tx.from, tx.to, tx.value,
                                                         tx.data.kind, tx.data.arg),
                                {}))

RECURSIVE applyTransactions(_, _)
applyTransactions(st, txs) ==
    LET next(r) == IF r.err # errNil THEN r ELSE applyTransactions(r.state, Tail(txs))
    IN IF txs = <<>> THEN [err |-> errNil, state |-> st]
       ELSE next(applyTransaction(st, Head(txs)))

\* The loop of Process over the transactions that are no system
\* transactions: each is validated on the state as it is, then applied.
\* Returns [err, state, cache].
RECURSIVE processTransactions(_, _, _, _)
processTransactions(st, txs, header, cache) ==
    LET next(r, c) ==
            IF r.err # errNil THEN [err |-> r.err, state |-> r.state, cache |-> c]
            ELSE processTransactions(r.state, Tail(txs), header, c)
        validated(v) ==
            IF v.err # errNil THEN [err |-> v.err, state |-> st, cache |-> v.cache]
            ELSE next(applyTransaction(st, Head(txs)), v.cache)
    IN IF txs = <<>> THEN [err |-> errNil, state |-> st, cache |-> cache]
       ELSE validated(ValidateTx(Head(txs).from, Head(txs), header, st, cache))

\* A loop that runs the system transactions as well.
RECURSIVE processLoopUnskipped(_, _, _)
processLoopUnskipped(acc, txs, header) ==
    LET tx == Head(txs)
        applied(a, r) ==
            IF r.err # errNil THEN [a EXCEPT !.err = r.err]
            ELSE processLoopUnskipped(
                     [a EXCEPT !.state = r.state,
                               !.receipts = Append(@, [failed |-> r.failed,
                                                       TxHash |-> Keccak256(tx)]),
                               !.commonTxs = Append(@, tx)],
                     Tail(txs), header)
        validated(a, v) ==
            IF v.err # errNil THEN [a EXCEPT !.err = v.err, !.cache = v.cache]
            ELSE applied([a EXCEPT !.cache = v.cache], applyTransaction(a.state, tx))
        sorted(a) ==
            validated([a EXCEPT !.validated = Append(@, tx)],
                      ValidateTx(tx.from, tx, header, a.state, a.cache))
    IN IF txs = <<>> THEN acc
       ELSE IF IsSysTransaction(tx.from, tx, header)
       THEN sorted([acc EXCEPT !.systemTxs = Append(@, tx)])
       ELSE sorted(acc)

\* The loop of Process over the transactions of the block, in order: a
\* system transaction is set aside; any other is validated on the state as
\* it is, applied, and its receipt and itself are appended. acc is
\* [err, state, cache, commonTxs, systemTxs, receipts, validated], where
\* validated notes the transactions ValidateTx was called with.
RECURSIVE processLoop(_, _, _)
processLoop(acc, txs, header) ==
    LET tx == Head(txs)
        applied(a, r) ==
            IF r.err # errNil THEN [a EXCEPT !.err = r.err]
            ELSE processLoop([a EXCEPT !.state = r.state,
                                       !.receipts = Append(@, [failed |-> r.failed,
                                                               TxHash |-> Keccak256(tx)]),
                                       !.commonTxs = Append(@, tx)],
                             Tail(txs), header)
        validated(a, v) ==
            IF v.err # errNil THEN [a EXCEPT !.err = v.err, !.cache = v.cache]
            ELSE applied([a EXCEPT !.cache = v.cache], applyTransaction(a.state, tx))
        sorted(a) ==
            validated([a EXCEPT !.validated = Append(@, tx)],
                      ValidateTx(tx.from, tx, header, a.state, a.cache))
    IN IF txs = <<>> THEN acc
       ELSE IF IsSysTransaction(tx.from, tx, header)
       THEN processLoop([acc EXCEPT !.systemTxs = Append(@, tx)], Tail(txs), header)
       ELSE sorted(acc)

\* StateProcessor.Process on the state of the parent: the upgrade of the
\* block, the validator of the EVM, the transactions that are no system
\* transactions validated and applied in order, then Finalize with the
\* system transactions. bl and rl are the caches of blacklists and of
\* rules, which the context returns as the block left them.
Process(block, st, rc, d, faults, bl, rl) ==
    LET header == block.header
        isSys(tx) == IsSysTransaction(tx.from, tx, header)
        cached(c, cache, rules) ==
            [c EXCEPT !.blacklists = cache, !.eventCheckRules = rules]
        finalize(applied, commonTxs, rules) ==
            IF applied.err # errNil
            THEN cached(Fail(NewContext(applied.state, commonTxs, rc, d), applied.err),
                        applied.cache, rules)
            ELSE cached(Finalize(header, applied.state, commonTxs,
                                 SelectSeq(block.txs, isSys), rc, d, faults),
                        applied.cache, rules)
        validated(ev, upgraded, commonTxs) ==
            finalize(processTransactions(upgraded, commonTxs, header, ev.blacklists),
                     commonTxs, ev.eventCheckRules)
        process(upgraded, commonTxs) ==
            validated(CreateEvmExtraValidator(header, upgraded, bl, rl), upgraded, commonTxs)
    IN process(PreHandle(st, header, {}).state, SelectSeq(block.txs, LAMBDA tx : ~isSys(tx)))

-----------------------------------------------------------------------------
(* Block production: Prepare and Seal.                                      *)

\* A Prepare that keeps all of the extra-data passed in as the vanity.
prepareExtraUncut(extra, number, validators) ==
    extra \o (IF number % Epoch = 0 THEN AddrListBytes(validators) ELSE <<>>)
          \o Zeros(extraSeal)

\* The extra-data Prepare builds from the extra-data passed in: 32 bytes of
\* vanity (padded with zeros, or cut), on an epoch header the validators,
\* 65 zero bytes for the seal.
prepareExtra(extra, number, validators) ==
    LET padded == IF Len(extra) < extraVanity
                  THEN extra \o Zeros(extraVanity - Len(extra))
                  ELSE extra
    IN Slice(padded, 0, extraVanity)
         \o (IF number % Epoch = 0 THEN AddrListBytes(validators) ELSE <<>>)
         \o Zeros(extraSeal)

\* A Prepare that takes the clock as the timestamp, whatever the parent.
prepareTimeNow(parentTime, t) == t

\* The timestamp Prepare sets at clock t.
prepareTime(parentTime, t) ==
    IF parentTime + Period < t THEN t ELSE parentTime + Period

\* Congress.Prepare(chain, header) for the validator val at clock t.
\* Returns [err, header, recents, db].
PrepareHeader(header, val, t, rc, d, faults) ==
    LET number == header.Number
        out(s, e, h) == [err |-> e, header |-> h, recents |-> s.recents, db |-> s.db]
        timed(s, h3, found) ==
            IF found = <<>> THEN out(s, ErrUnknownAncestor, h3)
            ELSE out(s, errNil, [h3 EXCEPT !.Time = prepareTime(found[1].Time, t)])
        extended(s, h2, top) ==
            IF top.err # errNil
            THEN out(s, top.err, [h2 EXCEPT !.Extra = Slice(prepareExtra(@, number, <<>>),
                                                            0, extraVanity)])
            ELSE timed(s, [h2 EXCEPT !.Extra = prepareExtra(header.Extra, number,
                                                            top.validators),
                                     !.MixDigest = 0],
                       GetHeader(header.ParentHash, number - 1))
        embedding(s, h2) ==
            extended(s, h2, IF number % Epoch = 0 THEN getTopValidators(h2, faults)
                            ELSE [err |-> errNil, validators |-> <<>>])
        prepared(s, h1) ==
            IF s.err # errNil THEN out(s, s.err, h1)
            ELSE embedding(s, [h1 EXCEPT !.Difficulty = calcDifficulty(s.snap, val)])
    IN prepared(snapshot(number - 1, header.ParentHash, <<>>, rc, d),
                [header EXCEPT !.Coinbase = val, !.Nonce = 0])

\* The header with the signature of key written into its last 65 bytes.
SignHeader(header, key) ==
    [header EXCEPT !.Extra =
        Slice(header.Extra, 0, Len(header.Extra) - extraSeal)
            \o SignBytes(key, CongressRLP(header))]

\* Whether Seal makes val wait: val signed one of the blocks of the window.
signedRecently(snap, number, val) ==
    LET limit == RecentsLimit(snap)
    IN \E r \in snap.Recents : r[2] = val /\ (number < limit \/ r[1] > number - limit)

\* A Seal that signs with some other account than the validator.
sealSignerOther(val) == AddrX

\* The account Seal signs with.
sealSigner(val) == val

\* Congress.Seal(chain, block, results, stop) for the validator val, up to
\* the start of the goroutine that delivers the block. Returns
\* [err, sealed, recents, db]; sealed is <<the signed header>>, or <<>>
\* when Seal returns without sealing.
SealBlock(header, txs, val, rc, d) ==
    LET number == header.Number
        out(s, e, q) == [err |-> e, sealed |-> q, recents |-> s.recents, db |-> s.db]
        sign(s) ==
            IF s.err # errNil THEN out(s, s.err, <<>>)
            ELSE IF val \notin s.snap.Validators THEN out(s, errUnauthorizedValidator, <<>>)
            ELSE IF signedRecently(s.snap, number, val) THEN out(s, errNil, <<>>)
            ELSE out(s, errNil, <<SignHeader(header, sealSigner(val))>>)
    IN IF number = 0 THEN [err |-> errUnknownBlock, sealed |-> <<>>, recents |-> rc, db |-> d]
       ELSE IF Period = 0 /\ Len(txs) = 0
       THEN [err |-> errNil, sealed |-> <<>>, recents |-> rc, db |-> d]
       ELSE sign(snapshot(number - 1, header.ParentHash, <<>>, rc, d))

-----------------------------------------------------------------------------
(* What the chain itself says, without the engine's snapshots.             *)

\* The validators authorized to sign the child of block n: those embedded
\* in the latest epoch header up to n (the genesis header at first).
AuthorizedAt(n) ==
    LET list == ParseValidators(chain[n - (n % Epoch) + 1].Extra)
    IN {list[i] : i \in 1..Len(list)}

\* Whether v is the validator at position number mod |validators| of the
\* validators in ascending address order.
InTurnOf(validators, number, v) ==
    /\ v \in validators
    /\ Cardinality({u \in validators : BytesLess(u, v)}) = number % Cardinality(validators)

-----------------------------------------------------------------------------
(* Headers the model feeds to the engine. *)

\* The genesis header: its extra-data embeds the initial validators.
Genesis(validators) ==
    [ParentHash |-> ZeroHash,
     UncleHash |-> uncleHash,
     Coinbase |-> ZeroAddr,
     Root |-> IntermediateRoot(GenesisState),
     TxHash |-> 0,
     ReceiptHash |-> 0,
     Bloom |-> 0,
     Difficulty |-> 1,
     Number |-> 0,
     GasLimit |-> 8000000,
     GasUsed |-> 0,
     Time |-> 0,
     Extra |-> Zeros(extraVanity) \o AddrListBytes(validators) \o Zeros(extraSeal),
     MixDigest |-> 0,
     Nonce |-> 0,
     BaseFee |-> NilInt]

\* An unsigned child of parent.
ChildHeader(parent, coinbase, difficulty, time, extra) ==
    [ParentHash |-> HeaderHash(parent),
     UncleHash |-> uncleHash,
     Coinbase |-> coinbase,
     Root |-> parent.Root,
     TxHash |-> 0,
     ReceiptHash |-> 0,
     Bloom |-> 0,
     Difficulty |-> difficulty,
     Number |-> parent.Number + 1,
     GasLimit |-> parent.GasLimit,
     GasUsed |-> 0,
     Time |-> time,
     Extra |-> extra,
     MixDigest |-> 0,
     Nonce |-> 0,
     BaseFee |-> NilInt]

Tip == chain[Len(chain)]

\* The extra-data of a well-formed child of the tip that embeds list on an
\* epoch header and nothing otherwise, with an empty seal.
WellFormedExtra(number, list) ==
    Zeros(extraVanity)
        \o (IF number % Epoch = 0 THEN AddrListBytes(list) ELSE <<>>)
        \o Zeros(extraSeal)

\* The validator lists of the genesis blocks the model starts from.
GenesisLists == {<<AddrA>>, <<AddrC, AddrA, AddrB>>, <<AddrA, AddrB, AddrC, AddrD>>}

\* The keys that sign headers.
Keys == {AddrA, AddrB, AddrC, AddrD, AddrX}

\* The validator lists a foreign epoch header may embed.
EpochLists == {ParseValidators(chain[1].Extra), <<AddrD, AddrB>>}

\* Children of the tip that differ in signer, coinbase (the signer or some
\* other account), difficulty and, on an epoch header, the embedded
\* validators.
SealCandidates ==
    UNION {{SignHeader(ChildHeader(Tip, cb, diff, Tip.Time + Period,
                                   WellFormedExtra(Tip.Number + 1, list)), key) :
                cb \in {key, AddrA},
                diff \in {diffNoTurn, diffInTurn},
                list \in EpochLists} :
           key \in Keys}

\* The validator whose turn the child of the tip is.
TurnOfTip ==
    LET authorized == AuthorizedAt(Tip.Number)
    IN IF authorized = {} THEN AddrX
       ELSE CHOOSE v \in authorized : InTurnOf(authorized, Tip.Number + 1, v)

\* Extra-data of n bytes: zero vanity, then as many bytes of the genesis
\* validator list as fit before the seal, then an empty seal.
ExtraOfLength(n) ==
    LET bytes == AddrListBytes(ParseValidators(chain[1].Extra))
    IN [i \in 1..n |->
          IF i > extraVanity /\ i <= n - extraSeal /\ i - extraVanity <= Len(bytes)
          THEN bytes[i - extraVanity]
          ELSE 0]

\* The extra-data lengths tried: around the vanity, around vanity plus
\* seal, and with whole and broken validator slots.
ExtraLengths == {0, 31, 32, 96, 97, 98, 116, 117, 137}

\* The timestamps tried: around parent.time + period, and in the future.
HeaderTimes == {Tip.Time + Period - 1, Tip.Time + Period, Tip.Time + Period + 1, now + 1}

\* Children of the tip by the in-turn validator that differ in timestamp
\* and in the length of the extra-data; signed when there is room for a seal.
HeaderCandidates ==
    {LET header == ChildHeader(Tip, TurnOfTip, diffInTurn, time, ExtraOfLength(n))
     IN IF n >= extraSeal THEN SignHeader(header, TurnOfTip) ELSE header :
        time \in HeaderTimes, n \in ExtraLengths}

-----------------------------------------------------------------------------
(* Actions. *)

\* Congress.Authorize(validator, signFn, signTxFn).
Authorize(v) ==
    /\ validator' = v
    /\ signFns' = [signFn |-> v, signTxFn |-> v]
    /\ op' = "Authorize"
    /\ hdr' = Tip
    /\ res' = errNil
    /\ calls' = <<>>
    /\ body' = <<>>
    /\ UNCHANGED <<blacklists, eventCheckRules>>
    /\ query' = <<>>
    /\ UNCHANGED <<locks, callers, config, batch, chain, states, recents, db, now, work>>

\* Congress.VerifyHeader(chain, header, seal); the host inserts a header
\* that verifies at the tip of its chain.
VerifyHeader(header) ==
    LET verified(r) ==
            /\ hdr' = header
            /\ res' = r.err
            /\ recents' = r.recents
            /\ db' = r.db
            /\ chain' = IF r.err = errNil /\ header.Number = Len(chain)
                        THEN Append(chain, header)
                        ELSE chain
            /\ calls' = <<>>
            /\ body' = <<>>
            /\ UNCHANGED <<blacklists, eventCheckRules>>
            /\ query' = <<>>
            /\ UNCHANGED <<lockVars, config, batch, states, validator, now, work>>
    IN /\ op' = "VerifyHeader"
       /\ verified(verifyHeader(header, <<>>, now, recents, db))

\* Congress.CalcDifficulty(chain, time, parent) on the tip.
CalcDifficulty ==
    LET calculated(s) ==
            /\ hdr' = Tip
            /\ res' = IF s.err # errNil THEN NilInt ELSE calcDifficulty(s.snap, validator)
            /\ recents' = s.recents
            /\ db' = s.db
            /\ calls' = <<>>
            /\ body' = <<>>
            /\ UNCHANGED <<blacklists, eventCheckRules>>
            /\ query' = <<>>
            /\ UNCHANGED <<lockVars, config, batch, chain, states, validator, now, work>>
    IN /\ op' = "CalcDifficulty"
       /\ calculated(snapshot(Tip.Number, HeaderHash(Tip), <<>>, recents, db))

InitOn(lists) ==
    /\ chain \in {<<Genesis(g)>> : g \in lists}
    /\ states = {GenesisState}
    /\ recents = {}
    /\ db = {}
    /\ validator = ZeroAddr
    /\ now = Clock0
    /\ op = "New"
    /\ hdr = chain[1]
    /\ res = errNil
    /\ calls = <<>>
    /\ work = <<>>
    /\ body = <<>>
    /\ query = <<>>
    /\ batch = <<>>
    /\ blacklists = {}
    /\ eventCheckRules = {}
    /\ locks = [bl |-> 0, rules |-> 0, lock |-> 0, rlock |-> {}]
    /\ callers = <<>>
    /\ signFns = [signFn |-> ZeroAddr, signTxFn |-> ZeroAddr]

InitChain == InitOn(GenesisLists)

\* The state after New with the developer verification configured.
Init == InitChain /\ config = [EnableDevVerification |-> TRUE, SophonBlock |-> NilInt]

\* Foreign headers arrive and are verified; the node seals nothing.
Next ==
    /\ Len(chain) <= MaxBlocks
    /\ \E header \in SealCandidates : VerifyHeader(header)

Spec == Init /\ [][Next]_vars

\* Foreign headers that differ in timestamp and extra-data length arrive.
NextHeader ==
    /\ Len(chain) <= MaxBlocks
    /\ \E header \in HeaderCandidates : VerifyHeader(header)

SpecHeader == Init /\ [][NextHeader]_vars

-----------------------------------------------------------------------------
(* The miner and the blocks of other nodes. *)

\* The state of the parent of a header the node has the parent of.
ParentState(header) == stateFn(GetHeader(header.ParentHash, header.Number - 1)[1].Root).state

\* The header the miner hands to Prepare: a child of the tip whose consensus
\* fields are not set yet, with the extra-data of its configuration.
NewWork(extra) == [ChildHeader(Tip, ZeroAddr, 0, now, extra) EXCEPT !.UncleHash = 0]

\* The extra-data a miner is configured with: shorter than the vanity, and
\* longer.
VanityInputs == {<<7>>, [i \in 1..(extraVanity + 3) |-> 9]}

\* A transaction of the funded user account.
UserTx(st, to, gasPrice, kind, arg) ==
    [from |-> AddrE, to |-> to, value |-> 0, gasPrice |-> gasPrice,
     nonce |-> Get(st.nonce, AddrE), data |-> [kind |-> kind, arg |-> arg]]

\* A proposal that moves one unit from the user account to the fee recorder.
TransferProposal ==
    [Id |-> 1, Action |-> 0, From |-> AddrE, To |-> FeeRecoder, Value |-> 1,
     Data |-> [kind |-> "", arg |-> <<>>]]

\* A proposal that changes the ranking of the Validators contract.
RankProposal ==
    [Id |-> 2, Action |-> 0, From |-> AddrE, To |-> ValidatorsContractAddr, Value |-> 0,
     Data |-> [kind |-> "stake", arg |-> <<AddrD, AddrA, AddrB>>]]

\* The user transactions a block on the state st may carry: none; a paid
\* transfer; a free call that passes a proposal which changes the ranking;
\* a paid call that passes a proposal which pays the fee recorder; free
\* calls that pass both.
Bodies(st) ==
    {<<>>,
     <<UserTx(st, AddrD, 1, "", <<>>)>>,
     <<UserTx(st, SysGovContractAddr, 0, "pass", RankProposal)>>,
     <<UserTx(st, SysGovContractAddr, 1, "pass", TransferProposal)>>,
     <<UserTx(st, SysGovContractAddr, 0, "pass", RankProposal),
       [UserTx(st, SysGovContractAddr, 0, "pass", TransferProposal)
            EXCEPT !.nonce = @ + 1]>>}

\* The miner runs Congress.Prepare on new work at the tip.
Prepare(extra, faults) ==
    LET prepared(r) ==
            /\ op' = "Prepare"
            /\ hdr' = r.header
            /\ res' = r.err
            /\ recents' = r.recents
            /\ db' = r.db
            /\ work' = IF r.err # errNil THEN <<>>
                       ELSE <<[stage |-> "prepared", header |-> r.header, txs |-> <<>>,
                               state |-> ParentState(r.header), extra |-> extra,
                               seal |-> <<>>]>>
            /\ calls' = <<>>
            /\ body' = <<>>
            /\ UNCHANGED <<blacklists, eventCheckRules>>
            /\ query' = <<>>
            /\ UNCHANGED <<lockVars, config, batch, chain, states, validator, now>>
    IN /\ Len(chain) <= MaxBlocks
       /\ prepared(PrepareHeader(NewWork(extra), validator, now, recents, db, faults))

\* The miner applies the transactions it picked to the state of the parent
\* and runs Congress.FinalizeAndAssemble.
Assemble(faults) ==
    LET header == work[1].header
        assembled(f) ==
            /\ op' = "FinalizeAndAssemble"
            /\ res' = f.err
            /\ hdr' = IF f.err = errNil THEN f.ret ELSE header
            /\ recents' = f.recents
            /\ db' = f.db
            /\ work' = IF f.err # errNil THEN <<>>
                       ELSE <<[work[1] EXCEPT !.stage = "assembled", !.header = f.ret,
                                              !.txs = f.txs, !.state = f.state]>>
            /\ calls' = f.calls
            /\ body' = f.txs
            /\ UNCHANGED <<blacklists, eventCheckRules>>
            /\ query' = <<>>
            /\ UNCHANGED <<lockVars, config, batch, chain, states, validator, now>>
        applied(pre, txs) ==
            /\ pre.err = errNil
            /\ assembled(FinalizeAndAssemble(header, pre.state, txs, recents, db,
                                             validator, faults))
    IN /\ work # <<>>
       /\ work[1].stage = "prepared"
       /\ \E txs \in Bodies(work[1].state) :
             applied(applyTransactions(PreHandle(work[1].state, header, {}).state, txs), txs)

\* The cases the first select of the goroutine of Seal, which reached it
\* with the stop channel open, takes without the case of the timer that
\* has not fired.
sealWaitLate(s, t) ==
    {c \in {"stop", "timer"} : IF c = "stop" THEN s.stop ELSE t >= s.until}

\* The cases the first select of the goroutine of Seal may take at time t:
\* the stop channel once it is closed, the timer once the delay is over. A
\* select that waits takes the case that becomes ready first: the stop that
\* was closed before the delay was over (s.early) has been taken when the
\* timer fires.
sealWait(s, t) ==
    {c \in {"stop", "timer"} : IF c = "stop" THEN s.stop ELSE t >= s.until /\ ~s.early}

\* The second select of the goroutine of Seal: the block is sent when the
\* results channel is ready, and dropped with a warning otherwise.
sealSend(ready) == IF ready THEN "delivered" ELSE "dropped"

\* The miner runs Congress.Seal on the assembled block; the goroutine of
\* Seal then waits with the sealed block for the delay to be over: the time
\* of the header, and for a block out of turn a random part of the wiggle
\* more, which ends either within the second or within the next (late;
\* drawn for the headers up to the time Clock0, which bounds the clock).
Seal(late) ==
    LET until(h) == IF late /\ h.Difficulty = diffNoTurn /\ h.Time <= Clock0
                    THEN h.Time + 1 ELSE h.Time
        sealing(r) ==
            /\ op' = "Seal"
            /\ res' = r.err
            /\ hdr' = IF r.sealed # <<>> THEN r.sealed[1] ELSE work[1].header
            /\ recents' = r.recents
            /\ db' = r.db
            /\ work' = IF r.sealed = <<>> THEN <<>>
                       ELSE <<[work[1] EXCEPT
                                 !.stage = "sealing", !.header = r.sealed[1],
                                 !.seal = <<[until |-> until(r.sealed[1]), stop |-> FALSE,
                                             early |-> FALSE, ready |-> <<>>,
                                             sent |-> 0]>>]>>
            /\ calls' = <<>>
            /\ body' = <<>>
            /\ UNCHANGED <<blacklists, eventCheckRules>>
            /\ query' = <<>>
            /\ UNCHANGED <<lockVars, config, batch, chain, states, validator, now>>
    IN /\ work # <<>>
       /\ work[1].stage = "assembled"
       /\ sealing(SealBlock(work[1].header, work[1].txs, validator, recents, db))

\* The miner closes the stop channel of the Seal that waits; early notes
\* that the delay was not over by then. (ready notes what the second select
\* found, sent counts the blocks sent.)
Stop ==
    /\ work # <<>>
    /\ work[1].stage = "sealing"
    /\ ~work[1].seal[1].stop
    /\ op' = "Stop"
    /\ hdr' = work[1].header
    /\ res' = errNil
    /\ work' = <<[work[1] EXCEPT !.seal = <<[work[1].seal[1] EXCEPT
                                               !.stop = TRUE,
                                               !.early = now < work[1].seal[1].until]>>]>>
    /\ calls' = <<>>
    /\ body' = <<>>
    /\ UNCHANGED <<blacklists, eventCheckRules>>
    /\ query' = <<>>
    /\ UNCHANGED <<lockVars, config, batch, chain, states, recents, db, validator, now>>

\* The goroutine of Seal: the first select takes a case that is ready; on
\* stop the goroutine returns, after the timer the second select sends the
\* block on the results channel when that is ready, and drops it otherwise.
Deliver(case, ready) ==
    LET sl == work[1].seal[1]
        outcome == IF case = "stop" THEN "stopped" ELSE sealSend(ready)
    IN /\ work # <<>>
       /\ work[1].stage = "sealing"
       /\ case \in sealWait(sl, now)
       /\ op' = "Deliver"
       /\ hdr' = work[1].header
       /\ res' = errNil
       /\ work' = <<[work[1] EXCEPT
                       !.stage = outcome,
                       !.seal = <<[sl EXCEPT
                                     !.ready = IF case = "stop" THEN @ ELSE <<ready>>,
                                     !.sent = IF outcome = "delivered" THEN @ + 1 ELSE @]>>]>>
       /\ calls' = <<>>
       /\ body' = <<>>
       /\ UNCHANGED <<blacklists, eventCheckRules>>
       /\ query' = <<>>
       /\ UNCHANGED <<lockVars, config, batch, chain, states, recents, db, validator, now>>

\* Congress.VerifyHeader on the block that Seal delivered.
VerifySealed ==
    LET verified(r) ==
            /\ op' = "VerifySealed"
            /\ hdr' = work[1].header
            /\ res' = r.err
            /\ recents' = r.recents
            /\ db' = r.db
            /\ work' = IF r.err # errNil THEN <<>>
                       ELSE <<[work[1] EXCEPT !.stage = "verified"]>>
            /\ calls' = <<>>
            /\ body' = <<>>
            /\ UNCHANGED <<blacklists, eventCheckRules>>
            /\ query' = <<>>
            /\ UNCHANGED <<lockVars, config, batch, chain, states, validator, now>>
    IN /\ work # <<>>
       /\ work[1].stage = "delivered"
       /\ verified(verifyHeader(work[1].header, <<>>, now, recents, db))

\* What the node does with a block whose header verified: Process on the
\* state of the parent, the comparison of the state root, and the insertion
\* at the tip. Returns [op, err, ctx].
insertBlock(block, faults, rc, d) ==
    LET validated(p) ==
            IF p.err # errNil
            THEN [op |-> IF /\ p.calls = <<>>
                            /\ p.err \in {errInsufficientFunds, ErrAddressDenied}
                         THEN "Process" ELSE "Finalize", err |-> p.err, ctx |-> p]
            ELSE IF p.ret.Root # block.header.Root
            THEN [op |-> "ValidateState", err |-> errInvalidRoot, ctx |-> p]
            ELSE [op |-> "Finalize", err |-> errNil, ctx |-> p]
    IN validated(Process(block, ParentState(block.header), rc, d, faults, blacklists,
                         eventCheckRules))

\* The outcome r of the verification of the header of a block and of its
\* insertion as the next state; own tells the block of the miner itself,
\* which is dropped when it fails.
Inserted(block, r, own) ==
    LET accepted == r.err = errNil /\ block.header.Number = Len(chain)
    IN /\ op' = r.op
       /\ hdr' = block.header
       /\ res' = r.err
       /\ recents' = r.ctx.recents
       /\ db' = r.ctx.db
       /\ chain' = IF accepted THEN Append(chain, block.header) ELSE chain
       /\ states' = IF accepted THEN states \cup {r.ctx.state} ELSE states
       /\ work' = IF accepted
                  THEN <<[stage |-> "inserted", header |-> block.header, txs |-> block.txs,
                          state |-> r.ctx.state, extra |-> <<>>, seal |-> <<>>]>>
                  ELSE IF own THEN <<>>
                  ELSE work
       /\ calls' = r.ctx.calls
       /\ body' = block.txs
       /\ blacklists' = r.ctx.blacklists
       /\ eventCheckRules' = r.ctx.eventCheckRules
       /\ query' = <<>>
       /\ UNCHANGED <<lockVars, config, batch, validator, now>>

\* The block that Seal delivered, and that verified, is inserted.
InsertSealed ==
    LET insert(block) == Inserted(block, insertBlock(block, {}, recents, db), TRUE)
    IN /\ work # <<>>
       /\ work[1].stage = "verified"
       /\ insert([header |-> work[1].header, txs |-> work[1].txs])

\* A block of another node arrives: Congress.VerifyHeader, then the
\* insertion.
InsertBlock(block, faults) ==
    LET insert(v) ==
            \E r \in {IF v.err # errNil
                      THEN [op |-> "VerifyHeader", err |-> v.err,
                            ctx |-> [recents |-> v.recents, db |-> v.db, calls |-> <<>>,
                                     blacklists |-> blacklists,
                                     eventCheckRules |-> eventCheckRules]]
                      ELSE insertBlock(block, faults, v.recents, v.db)} :
               Inserted(block, r, FALSE)
    IN /\ Len(chain) <= MaxBlocks
       /\ \E v \in {verifyHeader(block.header, <<>>, now, recents, db)} : insert(v)

\* A second passes while the goroutine of Seal waits.
Tick ==
    /\ work # <<>>
    /\ work[1].stage = "sealing"
    /\ now < work[1].seal[1].until
    /\ now' = now + 1
    /\ op' = "Tick"
    /\ hdr' = work[1].header
    /\ res' = errNil
    /\ calls' = <<>>
    /\ body' = <<>>
    /\ UNCHANGED <<blacklists, eventCheckRules>>
    /\ query' = <<>>
    /\ UNCHANGED <<lockVars, config, batch, chain, states, recents, db, validator, work>>

-----------------------------------------------------------------------------
(* The blocks other nodes send. *)

\* The block an honest node with the validator val builds on the tip from
\* the user transactions txs when its clock shows t: <<the block>>, or <<>>
\* when val cannot build or seal it.
BuildBlock(val, txs, extra, t) ==
    LET sealed(f, q) == IF q = <<>> THEN {} ELSE {[header |-> q[1], txs |-> f.txs]}
        assembled(f) ==
            IF f.err # errNil THEN {}
            ELSE sealed(f, SealBlock(f.ret, f.txs, val, recents, db).sealed)
        applied(p, pre) ==
            IF pre.err # errNil THEN {}
            ELSE assembled(FinalizeAndAssemble(p.header, pre.state, txs, recents, db, val, {}))
        prepared(p) ==
            IF p.err # errNil THEN {}
            ELSE applied(p, applyTransactions(
                                PreHandle(ParentState(p.header), p.header, {}).state, txs))
    IN prepared(PrepareHeader(NewWork(extra), val, t, recents, db, {}))

\* The block with another difficulty, signed again by its producer.
WithDifficulty(block, difficulty) ==
    [block EXCEPT !.header =
        SignHeader([block.header EXCEPT !.Difficulty = difficulty], block.header.Coinbase)]

\* The block with another validator list embedded, signed again.
WithValidators(block, list) ==
    [block EXCEPT !.header =
        SignHeader([block.header EXCEPT !.Extra =
                        prepareExtra(block.header.Extra, block.header.Number, list)],
                   block.header.Coinbase)]

\* The block without its system transactions.
WithoutSystemTxs(block) ==
    [block EXCEPT !.txs =
        SelectSeq(@, LAMBDA tx : ~IsSysTransaction(tx.from, tx, block.header))]

\* The block with every system transaction carrying the encoding of its
\* proposal with another value.
WithSysData(block) ==
    [block EXCEPT !.txs =
        [i \in 1..Len(@) |->
            IF IsSysTransaction(@[i].from, @[i], block.header)
            THEN [@[i] EXCEPT !.data.arg.Value = @ + 1] ELSE @[i]]]

\* The block with its system transactions in reverse order, after the
\* other transactions.
WithSysReversed(block) ==
    [block EXCEPT !.txs =
        SelectSeq(@, LAMBDA tx : ~IsSysTransaction(tx.from, tx, block.header))
          \o Reverse(SelectSeq(@, LAMBDA tx : IsSysTransaction(tx.from, tx, block.header)))]

\* The block with every system transaction signed by from.
WithSysSender(block, from) ==
    [block EXCEPT !.txs =
        [i \in 1..Len(@) |->
            IF IsSysTransaction(@[i].from, @[i], block.header)
            THEN [@[i] EXCEPT !.from = from] ELSE @[i]]]

\* The block with every system transaction sent to the governance contract
\* at a gas price.
WithSysRecipient(block) ==
    [block EXCEPT !.txs =
        [i \in 1..Len(@) |->
            IF IsSysTransaction(@[i].from, @[i], block.header)
            THEN [@[i] EXCEPT !.to = SysGovContractAddr, !.gasPrice = 1] ELSE @[i]]]

\* The block with its last transaction twice.
WithLastTwice(block) ==
    [block EXCEPT !.txs = IF @ = <<>> THEN @ ELSE Append(@, @[Len(@)])]

\* What other miners send while the node mines: the blocks of an
\* out-of-turn and of the in-turn validator, as built and with the other
\* difficulty.
ForeignBlocks ==
    LET blocks(honest) ==
            honest \cup {WithDifficulty(b, (diffInTurn + diffNoTurn) - b.header.Difficulty) :
                            b \in honest}
    IN blocks(UNION {BuildBlock(v, <<>>, <<>>, now) : v \in {AddrA, TurnOfTip}})

\* The validators whose blocks are replayed.
Producers == AuthorizedAt(Tip.Number) \cap {AddrA, AddrB, AddrC}

\* The lists a tampered epoch block embeds.
EmbedLists == {<<AddrA, AddrB, AddrC>>, <<AddrA, AddrB, AddrD>>, <<AddrA, AddrB>>}

\* The blocks replayed: every body by every producer as built; the empty
\* epoch block of the in-turn validator with other validators embedded;
\* blocks without their system transactions.
ReplayBlocks ==
    LET epoch(honest) == {b \in honest : /\ b.header.Number % Epoch = 0
                                         /\ b.header.Coinbase = TurnOfTip
                                         /\ Len(b.txs) = 0}
        blocks(honest) ==
            honest
              \cup {WithValidators(b, list) : b \in epoch(honest), list \in EmbedLists}
              \cup {WithoutSystemTxs(b) : b \in honest}
    IN blocks(UNION {BuildBlock(v, txs, <<>>, Tip.Time + Period) :
                        v \in Producers,
                        txs \in Bodies(ParentState(NewWork(<<>>)))})

\* The system calls that revert in a faulty execution.
FaultSets == {{}, {"updateActiveValidatorSet"}, {"distributeBlockReward"}}

\* The node mines: it is authorized, builds, seals and delivers blocks as
\* time passes, and takes the blocks of other miners.
NextProducer ==
    \/ validator = ZeroAddr /\ \E v \in {AddrB, AddrC, AddrX} : Authorize(v)
    \/ \E extra \in VanityInputs, faults \in {{}, {"getTopValidators"}} :
          Prepare(extra, faults)
    \/ \E faults \in {{}, {"punish"}} : Assemble(faults)
    \/ Seal(FALSE)
    \/ Deliver("timer", TRUE)
    \/ VerifySealed
    \/ InsertSealed
    \/ CalcDifficulty
    \/ Tick
    \/ \E block \in ForeignBlocks : InsertBlock(block, {})

SpecProducer == Init /\ [][NextProducer]_vars

\* n validators that are no other account of the model.
ManyValidators(n) == [i \in 1..n |-> MkAddr(5, i)]

\* The validator lists of the genesis blocks whose initialization is
\* looked at: none, one, three, as many as allowed and one more.
InitializeLists ==
    {<<>>, <<AddrA>>, <<AddrC, AddrA, AddrB>>, ManyValidators(maxValidators),
     ManyValidators(maxValidators + 1)}

\* The bodies of the blocks initialized: none, and a paid transfer.
InitializeBodies == {<<>>, <<UserTx(ParentState(NewWork(<<>>)), AddrD, 1, "", <<>>)>>}

\* Children of the tip that nobody sealed, in turn and out of turn.
UnsealedBlocks ==
    {[header |-> ChildHeader(Tip, AddrA, difficulty, Tip.Time + Period,
                             WellFormedExtra(Tip.Number + 1,
                                             ParseValidators(chain[1].Extra))),
      txs |-> txs] : difficulty \in {diffInTurn, diffNoTurn}, txs \in InitializeBodies}

\* The blocks the in-turn validator builds on the tip.
InitializeBlocks ==
    UNION {BuildBlock(TurnOfTip, txs, <<>>, Tip.Time + Period) : txs \in InitializeBodies}

\* StateProcessor.Process on a block whose header no one verified; the
\* block is not inserted.
ProcessCall(block, faults) ==
    LET processed(r) ==
            /\ op' = r.op
            /\ hdr' = block.header
            /\ res' = r.err
            /\ recents' = r.ctx.recents
            /\ db' = r.ctx.db
            /\ calls' = r.ctx.calls
            /\ body' = block.txs
            /\ blacklists' = r.ctx.blacklists
            /\ eventCheckRules' = r.ctx.eventCheckRules
            /\ query' = <<>>
            /\ UNCHANGED <<lockVars, config, batch, chain, states, validator, now, work>>
    IN /\ Len(chain) <= MaxBlocks
       /\ processed(insertBlock(block, faults, recents, db))

InitInitialize ==
    /\ InitOn(InitializeLists)
    /\ config = [EnableDevVerification |-> TRUE, SophonBlock |-> NilInt]

\* The node takes the blocks of the in-turn validator and processes blocks
\* that were not sealed, in executions with and without a failing
\* initialize or punish.
NextInitialize ==
    \/ \E block \in InitializeBlocks, faults \in {{}, {"initialize"}} :
          InsertBlock(block, faults)
    \/ \E block \in UnsealedBlocks, faults \in {{}, {"initialize"}, {"punish"}} :
          ProcessCall(block, faults)

SpecInitialize == InitInitialize /\ [][NextInitialize]_vars

\* The system calls of Finalize and FinalizeAndAssemble.
SystemMethods ==
    {"initialize", "punish", "distributeBlockReward", "getTopValidators",
     "updateActiveValidatorSet", "decreaseMissedBlocksCounter", "getPassedProposalCount",
     "getPassedProposalByIndex", "finishProposalById"}

\* The bodies of the blocks whose steps are looked at: none; a paid call
\* that passes a proposal; free calls that pass two proposals.
StepBodies ==
    LET st == ParentState(NewWork(<<>>))
    IN {<<>>,
        <<UserTx(st, SysGovContractAddr, 1, "pass", TransferProposal)>>,
        <<UserTx(st, SysGovContractAddr, 0, "pass", RankProposal),
          [UserTx(st, SysGovContractAddr, 0, "pass", TransferProposal)
               EXCEPT !.nonce = @ + 1]>>}

\* The validators that build them: the one in turn and one more.
StepProducers == {TurnOfTip, AddrA}

\* The blocks they build on the tip.
StepBlocks ==
    UNION {BuildBlock(v, txs, <<>>, Tip.Time + Period) : v \in StepProducers, txs \in StepBodies}

\* Congress.Finalize on a block, as StateProcessor.Process calls it after
\* the common transactions, in an execution where the calls of faults
\* revert. The query notes the call and the state it left.
FinalizeCall(block, faults) ==
    LET header == block.header
        isSys(tx) == IsSysTransaction(tx.from, tx, header)
        finalized(f) ==
            /\ hdr' = IF f.err = errNil THEN f.ret ELSE header
            /\ res' = f.err
            /\ calls' = f.calls
            /\ recents' = f.recents
            /\ db' = f.db
            /\ query' = <<[fn |-> "Finalize", header |-> header, faults |-> faults,
                           state |-> f.state, receipts |-> f.receipts]>>
        applied(pre, commonTxs) ==
            /\ pre.err = errNil
            /\ finalized(Finalize(header, pre.state, commonTxs, SelectSeq(block.txs, isSys),
                                  recents, db, faults))
        process(commonTxs) ==
            applied(applyTransactions(PreHandle(ParentState(header), header, {}).state,
                                      commonTxs),
                    commonTxs)
    IN /\ Len(chain) <= MaxBlocks
       /\ op' = "Finalize"
       /\ body' = block.txs
       /\ process(SelectSeq(block.txs, LAMBDA tx : ~isSys(tx)))
       /\ UNCHANGED <<lockVars, config, batch, chain, states, validator, now, work,
                      blacklists, eventCheckRules>>

\* Congress.FinalizeAndAssemble by the producer val on the transactions txs
\* applied to the state of the tip, in an execution where the calls of
\* faults revert.
AssembleCall(val, txs, faults) ==
    LET assembled(header, f) ==
            /\ hdr' = IF f.err = errNil THEN f.ret ELSE header
            /\ res' = f.err
            /\ calls' = f.calls
            /\ recents' = f.recents
            /\ db' = f.db
            /\ body' = f.txs
            /\ query' = <<[fn |-> "FinalizeAndAssemble", header |-> header,
                           faults |-> faults, state |-> f.state,
                           receipts |-> f.receipts]>>
        applied(p, pre) ==
            /\ pre.err = errNil
            /\ assembled(p.header, FinalizeAndAssemble(p.header, pre.state, txs, recents, db,
                                                       val, faults))
        prepared(p) ==
            /\ p.err = errNil
            /\ applied(p, applyTransactions(
                              PreHandle(ParentState(p.header), p.header, {}).state, txs))
    IN /\ Len(chain) <= MaxBlocks
       /\ op' = "FinalizeAndAssemble"
       /\ prepared(PrepareHeader(NewWork(<<>>), val, Tip.Time + Period, recents, db, {}))
       /\ UNCHANGED <<lockVars, config, batch, chain, states, validator, now, work,
                      blacklists, eventCheckRules>>

InitSteps == Init /\ chain = <<Genesis(<<AddrC, AddrA, AddrB>>)>>

\* The node takes the blocks of the validator in turn; callers run Finalize
\* and FinalizeAndAssemble on the next block with no or one failing system
\* call.
NextSteps ==
    \/ \E block \in StepBlocks : block.header.Coinbase = TurnOfTip /\ InsertBlock(block, {})
    \/ \E block \in StepBlocks, faults \in {{}} \cup {{m} : m \in SystemMethods} :
          FinalizeCall(block, faults)
    \/ \E val \in StepProducers, txs \in StepBodies,
           faults \in {{}} \cup {{m} : m \in SystemMethods} :
          AssembleCall(val, txs, faults)

SpecSteps == InitSteps /\ [][NextSteps]_vars

\* Proposals of every action. A transfer of more than the sender owns,
\* whose call fails.
BigTransferProposal ==
    [Id |-> 3, Action |-> 0, From |-> AddrE, To |-> AddrD, Value |-> GenesisFunds + 1,
     Data |-> [kind |-> "", arg |-> <<>>]]

\* The erasure of the code at to.
EraseProposal(id, to) ==
    [Id |-> id, Action |-> 1, From |-> AddrE, To |-> to, Value |-> 1,
     Data |-> [kind |-> "", arg |-> <<>>]]

\* A proposal of an action the engine does not know.
UnsupportedProposal ==
    [Id |-> 6, Action |-> 2, From |-> AddrE, To |-> AddrD, Value |-> 1,
     Data |-> [kind |-> "stake", arg |-> <<AddrD>>]]

\* The bodies that pass them: none; the transfer of one unit; the erasure
\* of a contract and of an account without code; a transfer that fails, the
\* unknown action and the change of the ranking.
ProposalBodies ==
    LET st == ParentState(NewWork(<<>>))
        pass(prop, k) == [UserTx(st, SysGovContractAddr, 0, "pass", prop)
                              EXCEPT !.nonce = @ + k]
    IN {<<>>,
        <<pass(TransferProposal, 0)>>,
        <<pass(EraseProposal(4, PunishContractAddr), 0), pass(EraseProposal(5, AddrD), 1)>>,
        <<pass(BigTransferProposal, 0), pass(UnsupportedProposal, 1), pass(RankProposal, 2)>>}

ProposalBlocks ==
    UNION {BuildBlock(TurnOfTip, txs, <<>>, Tip.Time + Period) : txs \in ProposalBodies}

\* The heights chainConfig.SophonBlock is looked at with: nil, the height
\* of RedCoast and the next.
SophonBlocks == {NilInt, RedCoastBlock, RedCoastBlock + 1}

InitProposals ==
    /\ InitChain
    /\ config \in {[EnableDevVerification |-> TRUE, SophonBlock |-> s] : s \in SophonBlocks}

\* The node takes the blocks of the validator in turn; callers run Finalize
\* and FinalizeAndAssemble on the next block, in executions where the call
\* of stake reverts or does not.
NextProposals ==
    \/ \E block \in ProposalBlocks : InsertBlock(block, {})
    \/ \E block \in ProposalBlocks, faults \in {{}, {"stake"}} : FinalizeCall(block, faults)
    \/ \E txs \in ProposalBodies, faults \in {{}, {"stake"}} :
          AssembleCall(TurnOfTip, txs, faults)

SpecProposals == InitProposals /\ [][NextProposals]_vars

\* The steps of the upgrades that may fail.
UpgradeFaults ==
    {<<name, step>> : name \in {"SysGov", "AddressList", "ValidatorsV1", "PunishV1",
                                 "AddressListV2", "ValidatorsV2"},
                      step \in {"Update", "Execute"}}

\* StateProcessor.Process comes to the upgrade of the next block of the
\* validator in turn, in an execution where the steps of faults fail; it
\* returns the error of PreHandle.
PreHandleCall(faults) ==
    LET header == ChildHeader(Tip, TurnOfTip, diffInTurn, Tip.Time + Period, <<>>)
        handled(st, r) ==
            /\ res' = r.err
            /\ query' = <<[fn |-> "PreHandle", faults |-> faults, before |-> st,
                           state |-> r.state]>>
    IN /\ Len(chain) <= MaxBlocks
       /\ op' = "PreHandle"
       /\ hdr' = header
       /\ handled(ParentState(header), PreHandle(ParentState(header), header, faults))
       /\ calls' = <<>>
       /\ body' = <<>>
       /\ UNCHANGED <<blacklists, eventCheckRules, lockVars, config,
                      batch, chain, states, recents, db, validator, now, work>>

\* The node takes the blocks of the validator in turn, and Process comes to
\* the upgrade of the next block with no or one failing step.
NextUpgrade ==
    \/ \E block \in BuildBlock(TurnOfTip, <<>>, <<>>, Tip.Time + Period) :
          InsertBlock(block, {})
    \/ \E faults \in {{}} \cup {{f} : f \in UpgradeFaults} : PreHandleCall(faults)

SpecUpgrade == InitProposals /\ [][NextUpgrade]_vars

\* The headers whose seal hash is taken: the tip, its child as Prepare
\* leaves it for the validator in turn, and both with an extra-data of 65
\* and of 66 bytes.
SealHashHeaders ==
    LET made == {Tip, ChildHeader(Tip, TurnOfTip, diffInTurn, Tip.Time + Period,
                                  WellFormedExtra(Tip.Number + 1, <<AddrA, AddrB, AddrC>>))}
    IN made \cup {[h EXCEPT !.Extra = Zeros(extraSeal)] : h \in made}
            \cup {[h EXCEPT !.Extra = <<7>> \o Zeros(extraSeal)] : h \in made}

\* The header with other bytes in the place of its seal: zeros, ones, and
\* the signature of a validator.
Resealed(h) ==
    LET front == Slice(h.Extra, 0, Len(h.Extra) - extraSeal)
    IN {[h EXCEPT !.Extra = front \o Zeros(extraSeal)],
        [h EXCEPT !.Extra = front \o [i \in 1..extraSeal |-> 1]],
        SignHeader(h, AddrA), SignHeader(h, AddrB)}

\* The header with one of its fields changed: each of the fields that
\* encodeSigHeader lists, the extra-data in front of the seal in a byte or
\* in its length, and the base fee, which it does not list.
Altered(h) ==
    {[h EXCEPT !.ParentHash = HeaderHash(h)],
     [h EXCEPT !.UncleHash = @ + 1],
     [h EXCEPT !.Coinbase = AddrX],
     [h EXCEPT !.Root = IntermediateRoot([@[1] EXCEPT !.initialized = ~@])],
     [h EXCEPT !.TxHash = @ + 1],
     [h EXCEPT !.ReceiptHash = @ + 1],
     [h EXCEPT !.Bloom = @ + 1],
     [h EXCEPT !.Difficulty = @ + 1],
     [h EXCEPT !.Number = @ + 1],
     [h EXCEPT !.GasLimit = @ + 1],
     [h EXCEPT !.GasUsed = @ + 1],
     [h EXCEPT !.Time = @ + 1],
     [h EXCEPT !.MixDigest = @ + 1],
     [h EXCEPT !.Nonce = @ + 1],
     [h EXCEPT !.Extra = <<9>> \o @],
     [h EXCEPT !.Extra = @ \o <<0>>],
     [h EXCEPT !.Extra = IF Len(@) > extraSeal THEN <<@[1] + 1>> \o Tail(@) ELSE @],
     [h EXCEPT !.BaseFee = 7]}

\* A caller takes the seal hash of two headers, once on every tip.
SealHashCall(a, b) ==
    /\ query = <<>>
    /\ op' = "SealHash"
    /\ query' = <<[a |-> a, b |-> b, hashA |-> SealHash(a), hashB |-> SealHash(b)]>>
    /\ hdr' = a
    /\ res' = errNil
    /\ calls' = <<>>
    /\ body' = <<>>
    /\ UNCHANGED <<blacklists, eventCheckRules, lockVars, config,
                   batch, chain, states, recents, db, validator, now, work>>

\* The node takes the blocks of the validator in turn; a caller compares
\* the seal hash of a header with the one of a resealed or altered header,
\* or of one that is both.
NextSealHash ==
    \/ \E block \in BuildBlock(TurnOfTip, <<>>, <<>>, Tip.Time + Period) :
          InsertBlock(block, {})
    \/ \E a \in SealHashHeaders : \E b \in Resealed(a) \cup Altered(a) : SealHashCall(a, b)
    \/ \E c \in Altered(Tip) : \E b \in Resealed(c) : SealHashCall(Tip, b)

SpecSealHash == Init /\ [][NextSealHash]_vars

-----------------------------------------------------------------------------
(* The validator of the EVM: blacklistValidator, with blacks a map from     *)
(* addresses to directions and rules a map from event signatures to rules   *)
(* [EventSig, Checks], Checks a map from topic indices to check types.      *)

\* common.AddressCheckType.
CheckNone == 0
CheckFrom == 1
CheckTo == 2
CheckBothInAny == 3

\* common.BytesToAddress: the last 20 bytes, padded with zeros on the left.
BytesToAddress(b) ==
    IF Len(b) > AddressLength THEN SubSeq(b, Len(b) - AddressLength + 1, Len(b))
    ELSE Zeros(AddressLength - Len(b)) \o b

\* An IsAddressDenied whose check of To reads the direction as the check
\* of From does.
IsAddressDeniedAsFrom(b, address, cType) ==
    IF ~MapHas(b.blacks, address) THEN FALSE
    ELSE CASE cType = CheckFrom -> MapGet(b.blacks, address) # DirectionTo
           [] cType = CheckTo -> MapGet(b.blacks, address) # DirectionTo
           [] cType = CheckBothInAny -> TRUE
           [] OTHER -> FALSE

\* blacklistValidator.IsAddressDenied.
IsAddressDenied(b, address, cType) ==
    IF ~MapHas(b.blacks, address) THEN FALSE
    ELSE CASE cType = CheckFrom -> MapGet(b.blacks, address) # DirectionTo
           [] cType = CheckTo -> MapGet(b.blacks, address) # DirectionFrom
           [] cType = CheckBothInAny -> TRUE
           [] OTHER -> FALSE

\* blacklistValidator.IsLogDenied on evLog, <<>> (nil) or <<[Topics]>>. The
\* loop over rule.Checks returns at the first hit, in whatever order the
\* map is walked: it returns true when some check hits.
IsLogDenied(b, evLog) ==
    LET topics == evLog[1].Topics
        hit(check) ==
            /\ ~(check[1] >= Len(topics))
            /\ IsAddressDenied(b, BytesToAddress(topics[check[1] + 1]), check[2])
    IN IF evLog = <<>> THEN FALSE
       ELSE IF Len(topics) <= 1 THEN FALSE
       ELSE IF ~MapHas(b.rules, topics[1]) THEN FALSE
       ELSE \E check \in MapGet(b.rules, topics[1]).Checks : hit(check)

\* A topic that holds an address: 12 bytes in front of it, zero or not.
TopicOf(addr, fill) == [i \in 1..(HashLength - AddressLength) |-> fill] \o addr

\* The signatures of two events.
EventSigT == TopicOf(AddrD, 5)
EventSigU == TopicOf(AddrD, 6)

\* The blacklists the validator is built with.
LogBlacks ==
    {{}, {<<AddrA, DirectionFrom>>}, {<<AddrA, DirectionTo>>}, {<<AddrA, DirectionBoth>>},
     {<<AddrA, DirectionFrom>>, <<AddrB, DirectionTo>>}, {<<AddrD, DirectionBoth>>}}

\* The check types of its rules: the four of common and one more.
CheckTypes == CheckNone..(CheckBothInAny + 1)

\* The largest topic index of a rule.
MaxCheckIdx == 3

\* Its rules: none, or one rule for the first signature with one check, or
\* with a check of From and a check of To.
LogRules ==
    LET rule(checks) == {<<EventSigT, [EventSig |-> EventSigT, Checks |-> checks]>>}
    IN {{}}
         \cup {rule({<<idx, ct>>}) : idx \in 0..MaxCheckIdx, ct \in CheckTypes}
         \cup {rule({<<idx, CheckFrom>>, <<idx + 1, CheckTo>>}) : idx \in 1..(MaxCheckIdx - 1)}

\* The logs it is asked about: nil, and logs of no to four topics.
Logs ==
    {<<>>}
      \cup {<<[Topics |-> t]>> :
              t \in {<<>>, <<EventSigT>>, <<EventSigU, TopicOf(AddrA, 0)>>}
                     \cup {<<EventSigT, TopicOf(a, fill)>> :
                              a \in {AddrA, AddrB}, fill \in {0, 1}}
                     \cup {<<EventSigT, TopicOf(AddrB, 0), TopicOf(AddrA, 0)>>,
                           <<EventSigT, TopicOf(AddrA, 0), TopicOf(AddrB, 0)>>,
                           <<EventSigT, TopicOf(AddrX, 0), TopicOf(AddrX, 0),
                             TopicOf(AddrA, 0)>>}}

\* The validator of a block is built: what CreateEvmExtraValidator returns
\* on the blacklist and the rules of the parent state.
NewValidator(blacks, rules) ==
    /\ query = <<>>
    /\ op' = "CreateEvmExtraValidator"
    /\ query' = <<[blacks |-> blacks, rules |-> rules, log |-> <<>>, out |-> FALSE]>>
    /\ hdr' = Tip
    /\ res' = errNil
    /\ calls' = <<>>
    /\ body' = <<>>
    /\ UNCHANGED <<blacklists, eventCheckRules, lockVars, config,
                   batch, chain, states, recents, db, validator, now, work>>

\* The EVM asks the validator of the block whether a log is denied.
IsLogDeniedCall(evLog) ==
    /\ query # <<>>
    /\ op' = "IsLogDenied"
    /\ query' = <<[query[1] EXCEPT !.log = evLog,
                                   !.out = IsLogDenied([blacks |-> query[1].blacks,
                                                        rules |-> query[1].rules], evLog)]>>
    /\ hdr' = Tip
    /\ res' = errNil
    /\ calls' = <<>>
    /\ body' = <<>>
    /\ UNCHANGED <<blacklists, eventCheckRules, lockVars, config,
                   batch, chain, states, recents, db, validator, now, work>>

NextLogs ==
    \/ \E blacks \in LogBlacks, rules \in LogRules : NewValidator(blacks, rules)
    \/ \E evLog \in Logs : IsLogDeniedCall(evLog)

SpecLogs == Init /\ [][NextLogs]_vars

\* The node mines alone: its miner may stop a Seal that waits, and the
\* results channel may not be ready when the goroutine of Seal sends.
NextSeal ==
    \/ validator = ZeroAddr /\ \E v \in {AddrA, AddrB, AddrC} : Authorize(v)
    \/ \E extra \in VanityInputs : Prepare(extra, {})
    \/ Assemble({})
    \/ \E late \in BOOLEAN : Seal(late)
    \/ Stop
    \/ \E case \in {"stop", "timer"}, ready \in BOOLEAN : Deliver(case, ready)
    \/ VerifySealed
    \/ InsertSealed
    \/ Tick

SpecSeal == Init /\ [][NextSeal]_vars

\* The node replays the blocks of other nodes, honest and tampered, in
\* executions with and without a failing system call.
NextFinalize ==
    \E block \in ReplayBlocks, faults \in FaultSets : InsertBlock(block, faults)

SpecFinalize == Init /\ [][NextFinalize]_vars

-----------------------------------------------------------------------------
(* Transaction admission: the callers of ValidateTx, CanCreate and          *)
(* IsSysTransaction, on a chain whose blocks change the address list.       *)

\* A transaction without value and fee.
PlainTx(from, to, gasPrice, kind, arg) ==
    [from |-> from, to |-> to, value |-> 0, gasPrice |-> gasPrice, nonce |-> 0,
     data |-> [kind |-> kind, arg |-> arg]]

\* The header of the pending block of the in-turn validator.
PendingHeader == ChildHeader(Tip, TurnOfTip, diffInTurn, Tip.Time + Period, <<>>)

\* The transactions of the blocks of this chain: none; the admin lists X
\* as From, D as To and B as From and as To; the admin turns the
\* verification of developers on; it also names X a developer; X sends a
\* transaction.
AccessBodies ==
    {<<>>,
     <<PlainTx(AddrE, AddressListContractAddr, 0, "addBlacklist", <<AddrX, DirectionFrom>>),
       PlainTx(AddrE, AddressListContractAddr, 0, "addBlacklist", <<AddrD, DirectionTo>>),
       PlainTx(AddrE, AddressListContractAddr, 0, "addBlacklist", <<AddrB, DirectionFrom>>),
       PlainTx(AddrE, AddressListContractAddr, 0, "addBlacklist", <<AddrB, DirectionTo>>)>>,
     <<PlainTx(AddrE, AddressListContractAddr, 0, "enableDevVerify", <<>>)>>,
     <<PlainTx(AddrE, AddressListContractAddr, 0, "enableDevVerify", <<>>),
       PlainTx(AddrE, AddressListContractAddr, 0, "addDeveloper", AddrX)>>,
     <<PlainTx(AddrX, AddrE, 0, "", <<>>)>>}

AccessBlocks ==
    UNION {BuildBlock(TurnOfTip, txs, <<>>, Tip.Time + Period) : txs \in AccessBodies}

\* A caller asks whether a transaction of sender to the recipient to is
\* admitted to the pending block, on the state of the tip.
ValidateTxCall(sender, to) ==
    LET tx == PlainTx(sender, to, 0, "", <<>>)
        asked(header, st, r) ==
            /\ hdr' = header
            /\ res' = r.err
            /\ query' = <<[sender |-> sender, tx |-> tx, state |-> st]>>
            /\ blacklists' = r.cache
            /\ eventCheckRules' = eventCheckRules
        ask(header, st) ==
            asked(header, st, ValidateTx(sender, tx, header, st, blacklists))
    IN /\ op' = "ValidateTx"
       /\ ask(PendingHeader, ParentState(PendingHeader))
       /\ calls' = <<>>
       /\ body' = <<>>
       /\ UNCHANGED <<lockVars, config, batch, chain, states, recents, db, validator, now, work>>

\* The EVM asks whether addr may create a contract at height, on the state
\* of the tip.
CanCreateCall(addr, height) ==
    /\ op' = "CanCreate"
    /\ hdr' = PendingHeader
    /\ res' = errNil
    /\ query' = <<[addr |-> addr, height |-> height, state |-> ParentState(PendingHeader),
                   out |-> CanCreate(ParentState(PendingHeader), addr, height, config)]>>
    /\ calls' = <<>>
    /\ body' = <<>>
    /\ UNCHANGED <<blacklists, eventCheckRules, lockVars, config,
                   batch, chain, states, recents, db, validator, now, work>>

\* A caller asks whether a transaction is a system transaction of the
\* pending block.
IsSysTransactionCall(sender, to, gasPrice) ==
    LET tx == PlainTx(sender, to, gasPrice, "", <<>>)
    IN /\ op' = "IsSysTransaction"
       /\ hdr' = PendingHeader
       /\ res' = errNil
       /\ query' = <<[sender |-> sender, tx |-> tx,
                      out |-> IsSysTransaction(sender, tx, PendingHeader)]>>
       /\ calls' = <<>>
       /\ body' = <<>>
       /\ UNCHANGED <<blacklists, eventCheckRules, lockVars, config,
                      batch, chain, states, recents, db, validator, now, work>>

\* The engine was built with or without the verification of developers.
InitAccess ==
    /\ InitChain
    /\ chain = <<Genesis(<<AddrC, AddrA, AddrB>>)>>
    /\ config \in {[EnableDevVerification |-> b, SophonBlock |-> NilInt] : b \in BOOLEAN}

\* Blocks that change the address list are inserted, and callers ask.
NextAccess ==
    \/ \E block \in AccessBlocks : InsertBlock(block, {})
    \/ \E sender \in {AddrX, AddrD, AddrB}, to \in {AddrX, AddrD, AddrB, NilTo} :
          ValidateTxCall(sender, to)
    \/ \E addr \in {AddrX, AddrD}, height \in 0..MaxBlocks : CanCreateCall(addr, height)
    \/ \E sender \in {TurnOfTip, AddrX}, gasPrice \in {0, 1},
          to \in {NilTo, SysGovToAddr, SysGovContractAddr, AddrD} :
          IsSysTransactionCall(sender, to, gasPrice)

SpecAccess == InitAccess /\ [][NextAccess]_vars

-----------------------------------------------------------------------------
(* VerifyHeaders: the caller, the goroutine that verifies the batch, the    *)
(* results channel and the abort channel.                                   *)

\* make(chan error, len(headers)).
resultsCapacity(headers) == Len(headers)

\* The validator whose turn the block number is, by the validators of the
\* genesis block.
TurnAt(number) ==
    IF AuthorizedAt(0) = {} THEN AddrX
    ELSE CHOOSE v \in AuthorizedAt(0) : InTurnOf(AuthorizedAt(0), number, v)

\* The sealed header of the in-turn child of parent, with a difficulty.
SealedChild(parent, difficulty) ==
    SignHeader(ChildHeader(parent, TurnAt(parent.Number + 1), difficulty,
                           parent.Time + Period,
                           WellFormedExtra(parent.Number + 1,
                                           ParseValidators(chain[1].Extra))),
               TurnAt(parent.Number + 1))

\* The batches a caller passes: the next headers of the chain, in order and
\* out of order, with a header of the wrong difficulty first or last, and
\* up to a header of the future.
Batches ==
    LET chained(h1, h2) == {<<h1, h2>>, <<h2, h1>>, <<h1, h2, SealedChild(h2, diffInTurn)>>}
        after(h1, bad) ==
            chained(h1, SealedChild(h1, diffInTurn))
              \cup {<<h1, SealedChild(h1, diffNoTurn)>>, <<bad, SealedChild(bad, diffInTurn)>>}
    IN after(SealedChild(Tip, diffInTurn), SealedChild(Tip, diffNoTurn))

\* VerifyHeaders: the channels are made and the goroutine is started.
VerifyHeaders(headers) ==
    /\ batch = <<>>
    /\ op' = "VerifyHeaders"
    /\ batch' = <<[headers |-> headers, i |-> 0, results |-> <<>>, got |-> <<>>,
                   abort |-> FALSE, abortedAt |-> NilInt, running |-> TRUE]>>
    /\ UNCHANGED <<chain, states, recents, db, validator, now, hdr, res, calls, work, body,
                   query, blacklists, eventCheckRules, lockVars, config>>

\* One turn of the loop of the goroutine: the header at i is verified with
\* the headers before it as parents, then the select takes a case that is
\* ready: the send of the result when the channel has room (send), the
\* return when abort is closed. Go picks among ready cases at random.
VerifyNext(send) ==
    LET b == batch[1]
        selected(v) ==
            /\ recents' = v.recents
            /\ db' = v.db
            /\ batch' = IF send
                        THEN <<[b EXCEPT !.results = Append(@, v.err),
                                         !.i = @ + 1,
                                         !.running = b.i + 1 < Len(b.headers)]>>
                        ELSE <<[b EXCEPT !.running = FALSE]>>
    IN /\ batch # <<>>
       /\ b.running
       /\ b.i < Len(b.headers)
       /\ IF send THEN Len(b.results) < resultsCapacity(b.headers) ELSE b.abort
       /\ op' = "verifyHeader"
       /\ selected(verifyHeader(b.headers[b.i + 1], SubSeq(b.headers, 1, b.i), now,
                                recents, db))
       /\ UNCHANGED <<chain, states, validator, now, hdr, res, calls, work, body, query,
                      blacklists, eventCheckRules, lockVars, config>>

\* The caller closes the abort channel; abortedAt notes how many headers
\* the goroutine had verified by then.
Abort ==
    /\ batch # <<>>
    /\ ~batch[1].abort
    /\ op' = "abort"
    /\ batch' = <<[batch[1] EXCEPT !.abort = TRUE, !.abortedAt = batch[1].i]>>
    /\ UNCHANGED <<chain, states, recents, db, validator, now, hdr, res, calls, work, body,
                   query, blacklists, eventCheckRules, lockVars, config>>

\* The caller receives the next result from the results channel.
Receive ==
    /\ batch # <<>>
    /\ batch[1].results # <<>>
    /\ op' = "receive"
    /\ batch' = <<[batch[1] EXCEPT !.got = Append(@, Head(batch[1].results)),
                                   !.results = Tail(@)]>>
    /\ UNCHANGED <<chain, states, recents, db, validator, now, hdr, res, calls, work, body,
                   query, blacklists, eventCheckRules, lockVars, config>>

NextVerifyHeaders ==
    \/ \E headers \in Batches : VerifyHeaders(headers)
    \/ \E send \in BOOLEAN : VerifyNext(send)
    \/ Abort
    \/ Receive

SpecVerifyHeaders == Init /\ [][NextVerifyHeaders]_vars

-----------------------------------------------------------------------------
(* The rotation of three validators over several blocks.                    *)

\* The number of blocks of the rotation.
RotationBlocks == 6

\* Children of the tip sealed by each of the three validators, with either
\* difficulty.
RotationCandidates ==
    {SignHeader(ChildHeader(Tip, key, difficulty, Tip.Time + Period,
                            WellFormedExtra(Tip.Number + 1,
                                            ParseValidators(chain[1].Extra))), key) :
        key \in {AddrA, AddrB, AddrC}, difficulty \in {diffNoTurn, diffInTurn}}

\* Time passes until the child of the tip is due.
Pass ==
    /\ now < Tip.Time + Period
    /\ now' = Tip.Time + Period
    /\ op' = "Pass"
    /\ hdr' = Tip
    /\ res' = errNil
    /\ calls' = <<>>
    /\ body' = <<>>
    /\ UNCHANGED <<blacklists, eventCheckRules>>
    /\ query' = <<>>
    /\ UNCHANGED <<lockVars, config, batch, chain, states, recents, db, validator, work>>

InitRotation == Init /\ chain = <<Genesis(<<AddrC, AddrA, AddrB>>)>>

\* Headers of the three validators arrive as time passes.
NextRotation ==
    \/ Len(chain) <= RotationBlocks /\ \E header \in RotationCandidates : VerifyHeader(header)
    \/ Len(chain) <= RotationBlocks /\ Pass

SpecRotation == InitRotation /\ [][NextRotation]_vars

-----------------------------------------------------------------------------
(* The caches of the blacklist and of the rules, past the Sophon block.     *)

\* The longest chain of this part of the model, after the genesis block.
CacheBlocks == 3

\* The transactions of the blocks of this chain: none; the admin lists X
\* as From; the admin sets a rule; the admin lists D as To and sets the
\* rule anew; X sends a transaction. Each update comes with the number of
\* its block.
CacheBodies ==
    LET number == Tip.Number + 1
        list(addr, dir) ==
            PlainTx(AddrE, AddressListContractAddr, 0, "addBlacklist", <<addr, dir, number>>)
        rule(idx, ct) ==
            PlainTx(AddrE, AddressListContractAddr, 0, "addRule",
                    <<EventSigT, idx, ct, number>>)
    IN {<<>>,
        <<list(AddrX, DirectionFrom)>>,
        <<rule(1, CheckFrom)>>,
        <<list(AddrD, DirectionTo), rule(1, CheckTo)>>,
        <<PlainTx(AddrD, AddrE, 0, "", <<>>)>>}

CacheBlocksOfTip ==
    UNION {BuildBlock(TurnOfTip, txs, <<>>, Tip.Time + Period) : txs \in CacheBodies}

\* A block of another node arrives, on a chain of at most CacheBlocks
\* blocks.
InsertCacheBlock(block) ==
    LET insert(v) ==
            \E r \in {IF v.err # errNil
                      THEN [op |-> "VerifyHeader", err |-> v.err,
                            ctx |-> [recents |-> v.recents, db |-> v.db, calls |-> <<>>,
                                     blacklists |-> blacklists,
                                     eventCheckRules |-> eventCheckRules]]
                      ELSE insertBlock(block, {}, v.recents, v.db)} :
               Inserted(block, r, FALSE)
    IN /\ Len(chain) <= CacheBlocks
       /\ \E v \in {verifyHeader(block.header, <<>>, now, recents, db)} : insert(v)

\* The miner asks for the validator of the EVM of the pending block, on the
\* state of the tip. The call notes whether the maps were carried over.
CreateEvmExtraValidatorCall ==
    LET header == PendingHeader
        asked(st, r) ==
            /\ query' = <<[header |-> header, state |-> st, validator |-> r.validator,
                           carried |->
                               <<carriedOver(header, lastBlacklistUpdatedNumber(st),
                                             blacklists) # <<>>
                                   /\ ~MapHas(blacklists, header.ParentHash),
                                 carriedOver(header, lastRulesUpdatedNumber(st),
                                             eventCheckRules) # <<>>
                                   /\ ~MapHas(eventCheckRules, header.ParentHash)>>]>>
            /\ blacklists' = r.blacklists
            /\ eventCheckRules' = r.eventCheckRules
        ask(st) == asked(st, CreateEvmExtraValidator(header, st, blacklists, eventCheckRules))
    IN /\ op' = "CreateEvmExtraValidator"
       /\ hdr' = header
       /\ res' = errNil
       /\ ask(ParentState(header))
       /\ calls' = <<>>
       /\ body' = <<>>
       /\ UNCHANGED <<lockVars, config, batch, chain, states, recents, db, validator, now,
                      work>>

\* The node starts anew on its chain: New allocates empty caches.
Restart ==
    /\ op' = "New"
    /\ hdr' = Tip
    /\ res' = errNil
    /\ recents' = {}
    /\ blacklists' = {}
    /\ eventCheckRules' = {}
    /\ validator' = ZeroAddr
    /\ calls' = <<>>
    /\ body' = <<>>
    /\ query' = <<>>
    /\ UNCHANGED <<lockVars, config, batch, chain, states, db, now, work>>

\* The second version of the AddressList contract comes with the block
\* after the RedCoast block.
InitCache ==
    /\ InitChain
    /\ chain = <<Genesis(<<AddrC, AddrA, AddrB>>)>>
    /\ config = [EnableDevVerification |-> TRUE, SophonBlock |-> RedCoastBlock + 1]

\* Blocks that change the blacklist and the rules are inserted, the miner
\* asks for the validator of the pending block and whether a transaction
\* is admitted to it, time passes and the node starts anew.
NextCache ==
    \/ \E block \in CacheBlocksOfTip : InsertCacheBlock(block)
    \/ Len(chain) <= CacheBlocks /\ Pass
    \/ CreateEvmExtraValidatorCall
    \/ \E sender \in {AddrX, AddrD} : ValidateTxCall(sender, AddrE)
    \/ Restart

SpecCache == InitCache /\ [][NextCache]_vars

-----------------------------------------------------------------------------
(* Concurrent callers of getBlacklist and getEventCheckRules. A caller is   *)
(* a goroutine [kind, header, state, faults, pc, looks, read, m, err]: the  *)
(* function it runs ("bl" or "rules"), its arguments, the calls of the      *)
(* contract that fail for it, the place it is at, the look at the cache     *)
(* that found the map (0 for none), whether it read the contract, and what  *)
(* it returns.                                                               *)

\* The most goroutines inside the two functions at a time.
MaxCallers == 3

\* c.blacklists.Get or c.eventCheckRules.Get: <<m>>, or <<>> for none.
lookUp(cache, hash) == IF MapHas(cache, hash) THEN <<MapGet(cache, hash)>> ELSE <<>>

\* A second look that never finds the entry.
secondLookBlind(cache, hash) == <<>>

\* The look at the cache under the lock.
secondLook(cache, hash) == lookUp(cache, hash)

cacheOf(kind) == IF kind = "bl" THEN blacklists ELSE eventCheckRules

\* The cache of the kind becomes cache, the other stays.
Cached(kind, cache) ==
    /\ blacklists' = IF kind = "bl" THEN cache ELSE blacklists
    /\ eventCheckRules' = IF kind = "bl" THEN eventCheckRules ELSE cache

\* What every step of a goroutine leaves of the last operation.
Ran(caller) ==
    /\ op' = IF caller.kind = "bl" THEN "getBlacklist" ELSE "getEventCheckRules"
    /\ hdr' = caller.header
    /\ res' = caller.err
    /\ calls' = <<>>
    /\ body' = <<>>
    /\ query' = <<>>
    /\ UNCHANGED <<config, batch, chain, states, recents, db, validator, signFns, now, work>>

\* Goroutine i goes on as caller.
Moved(i, caller) ==
    /\ callers' = [callers EXCEPT ![i] = caller]
    /\ Ran(caller)

\* A goroutine calls getBlacklist (after the RedCoast block) or
\* getEventCheckRules (after the Sophon block) for header, on the state of
\* its parent.
Call(kind, header, faults) ==
    LET caller == [kind |-> kind, header |-> header, state |-> ParentState(header),
                   faults |-> faults, pc |-> "look", looks |-> 0, read |-> FALSE, m |-> {},
                   err |-> errNil]
    IN /\ Len(callers) < MaxCallers
       /\ header.Number > (IF kind = "bl" THEN RedCoastBlock ELSE SophonBlock)
       /\ callers' = Append(callers, caller)
       /\ Ran(caller)
       /\ UNCHANGED <<blacklists, eventCheckRules, locks>>

\* The look at the cache before the lock: the goroutine returns the entry
\* of the parent hash, or goes for the lock.
FirstLook(i) ==
    LET caller == callers[i]
        looked(found) ==
            IF found # <<>>
            THEN Moved(i, [caller EXCEPT !.pc = "done", !.looks = 1, !.m = found[1]])
            ELSE Moved(i, [caller EXCEPT !.pc = "lock"])
    IN /\ caller.pc = "look"
       /\ looked(lookUp(cacheOf(caller.kind), caller.header.ParentHash))
       /\ UNCHANGED <<blacklists, eventCheckRules, locks>>

\* c.blLock.Lock() or c.rulesLock.Lock(): the goroutine goes on when no
\* other holds the lock.
Lock(i) ==
    LET caller == callers[i]
    IN /\ caller.pc = "lock"
       /\ locks[caller.kind] = 0
       /\ locks' = [locks EXCEPT ![caller.kind] = i]
       /\ Moved(i, [caller EXCEPT !.pc = "look again"])
       /\ UNCHANGED <<blacklists, eventCheckRules>>

\* The look at the cache under the lock.
SecondLook(i) ==
    LET caller == callers[i]
        looked(found) ==
            IF found # <<>>
            THEN Moved(i, [caller EXCEPT !.pc = "unlock", !.looks = 2, !.m = found[1]])
            ELSE Moved(i, [caller EXCEPT !.pc = "carry"])
    IN /\ caller.pc = "look again"
       /\ looked(secondLook(cacheOf(caller.kind), caller.header.ParentHash))
       /\ UNCHANGED <<blacklists, eventCheckRules, locks>>

\* The carry-over: the entry of the parent hash of the parent is stored
\* under the parent hash and returned, or the goroutine goes for the
\* contract.
CarryOver(i) ==
    LET caller == callers[i]
        cache == cacheOf(caller.kind)
        carried(found) ==
            IF found # <<>>
            THEN /\ Cached(caller.kind, MapSet(cache, caller.header.ParentHash, found[1]))
                 /\ Moved(i, [caller EXCEPT !.pc = "unlock", !.m = found[1]])
            ELSE /\ Cached(caller.kind, cache)
                 /\ Moved(i, [caller EXCEPT !.pc = "read"])
    IN /\ caller.pc = "carry"
       /\ carried(IF caller.kind = "bl"
                  THEN IF SophonBlock # NilInt /\ caller.header.Number > SophonBlock
                       THEN carriedOver(caller.header,
                                        lastBlacklistUpdatedNumber(caller.state), cache)
                       ELSE <<>>
                  ELSE carriedOver(caller.header, lastRulesUpdatedNumber(caller.state),
                                   cache))
       /\ UNCHANGED locks

\* The read of the contract: the goroutine builds the map, or returns the
\* error of a call.
Read(i) ==
    LET caller == callers[i]
        built(r) ==
            IF r.err # errNil
            THEN Moved(i, [caller EXCEPT !.pc = "unlock", !.read = TRUE, !.err = r.err])
            ELSE Moved(i, [caller EXCEPT !.pc = "add", !.read = TRUE, !.m = r.m])
    IN /\ caller.pc = "read"
       /\ built(IF caller.kind = "bl"
                THEN readBlacklist(caller.header, caller.state, caller.faults)
                ELSE readEventCheckRules(caller.header, caller.state, caller.faults))
       /\ UNCHANGED <<blacklists, eventCheckRules, locks>>

\* c.blacklists.Add or c.eventCheckRules.Add of the map built.
Add(i) ==
    LET caller == callers[i]
    IN /\ caller.pc = "add"
       /\ Cached(caller.kind,
                 MapSet(cacheOf(caller.kind), caller.header.ParentHash, caller.m))
       /\ Moved(i, [caller EXCEPT !.pc = "unlock"])
       /\ UNCHANGED locks

\* The deferred Unlock, and the return.
Unlock(i) ==
    LET caller == callers[i]
    IN /\ caller.pc = "unlock"
       /\ locks' = [locks EXCEPT ![caller.kind] = 0]
       /\ Moved(i, [caller EXCEPT !.pc = "done"])
       /\ UNCHANGED <<blacklists, eventCheckRules>>

\* The transactions of the blocks of this chain: a transaction of D, or
\* an update of the blacklist and of the rules.
ConcurrentBodies ==
    {<<PlainTx(AddrD, AddrE, 0, "", <<>>)>>,
     <<PlainTx(AddrE, AddressListContractAddr, 0, "addBlacklist",
               <<AddrX, DirectionFrom, Tip.Number + 1>>),
       PlainTx(AddrE, AddressListContractAddr, 0, "addRule",
               <<EventSigT, 1, CheckFrom, Tip.Number + 1>>)>>}

\* The calls of the contract that fail for a caller: none, or a getter of
\* each function.
CallerFaults == {{}, {"getBlacksTo", "getRuleByIndex"}}

\* Blocks are inserted while no goroutine is inside the functions; then
\* goroutines call for the pending block, and each takes its steps in any
\* order with the others.
NextConcurrent ==
    \/ /\ callers = <<>>
       /\ Len(chain) <= MaxBlocks
       /\ \E txs \in ConcurrentBodies :
             \E block \in BuildBlock(TurnOfTip, txs, <<>>, Tip.Time + Period) :
                InsertCacheBlock(block)
    \/ \E kind \in {"bl", "rules"}, faults \in CallerFaults :
          Call(kind, PendingHeader, faults)
    \/ \E i \in 1..Len(callers) : FirstLook(i)
    \/ \E i \in 1..Len(callers) : Lock(i)
    \/ \E i \in 1..Len(callers) : SecondLook(i)
    \/ \E i \in 1..Len(callers) : CarryOver(i)
    \/ \E i \in 1..Len(callers) : Read(i)
    \/ \E i \in 1..Len(callers) : Add(i)
    \/ \E i \in 1..Len(callers) : Unlock(i)

SpecConcurrent == InitCache /\ [][NextConcurrent]_vars

\* The blocks replayed for their governance step: every body by the in-turn
\* validator as built; without its system transactions; with system
\* transactions of another payload, order, sender or recipient; with its
\* last transaction twice.
GovernanceBlocks ==
    LET blocks(honest) ==
            honest
              \cup {WithoutSystemTxs(b) : b \in honest}
              \cup {WithSysData(b) : b \in honest}
              \cup {WithSysReversed(b) : b \in honest}
              \cup {WithSysSender(b, AddrX) : b \in honest}
              \cup {WithSysRecipient(b) : b \in honest}
              \cup {WithLastTwice(b) : b \in honest}
    IN blocks(UNION {BuildBlock(TurnOfTip, txs, <<>>, Tip.Time + Period) :
                        txs \in Bodies(ParentState(NewWork(<<>>)))})

\* The node replays the governance step of honest and tampered blocks, in
\* executions with and without a failing call of the governance contract.
NextGovernance ==
    \E block \in GovernanceBlocks, faults \in {{}, {"finishProposalById"}} :
        InsertBlock(block, faults)

SpecGovernance == Init /\ [][NextGovernance]_vars

-----------------------------------------------------------------------------
(* Seal verification. *)

\* C1: a header with number > 0 that verifySeal accepts is signed by its
\* coinbase, and that signer is a validator of the snapshot at number - 1;
\* a signer other than the coinbase gives InvalidCoinbase whether or not it
\* is a validator (the coinbase check comes first), and a signer that is the
\* coinbase but no validator gives UnauthorizedValidator.
C1_SealAuthority ==
    (op = "VerifyHeader" /\ hdr.Number > 0) =>
        LET signer == ecrecover(hdr).addr
            authorized == AuthorizedAt(hdr.Number - 1)
        IN /\ res = errNil => (signer = hdr.Coinbase /\ signer \in authorized)
           /\ signer # hdr.Coinbase => res = errInvalidCoinbase
           /\ (signer = hdr.Coinbase /\ signer \notin authorized)
                => res = errUnauthorizedValidator

\* A header signed by an account that is neither its coinbase nor a
\* validator was rejected with InvalidCoinbase.
C1_Witness ==
    /\ op = "VerifyHeader"
    /\ hdr.Number > 0
    /\ ecrecover(hdr).addr # hdr.Coinbase
    /\ ecrecover(hdr).addr \notin AuthorizedAt(hdr.Number - 1)
    /\ res = errInvalidCoinbase

\* The difficulty of block number when v signs it, by the validators the
\* chain authorizes for that block.
ExpectedDifficulty(number, v) ==
    IF InTurnOf(AuthorizedAt(number - 1), number, v) THEN diffInTurn ELSE diffNoTurn

C3_NoSignerTwiceInWindow ==
    \A i, j \in 1..(Len(chain) - 1) :
        (i < j /\ j - i < (Cardinality(AuthorizedAt(j - 1)) \div 2) + 1)
            => ecrecover(chain[i + 1]).addr # ecrecover(chain[j + 1]).addr

-----------------------------------------------------------------------------
(* Header fields. *)

\* The parent of the header that was verified last.
ParentOfHdr == chain[hdr.Number]

\* C5, as the code has it: a header whose timestamp equals parent.time +
\* period passes the timestamp check, and so does parent.time + period + 1;
\* a header one second earlier, with its other fields in order, is rejected
\* with InvalidTimestamp.
C5_TimestampBoundary ==
    (op = "VerifyHeader" /\ hdr.Number > 0) =>
        /\ hdr.Time >= ParentOfHdr.Time + Period => res # ErrInvalidTimestamp
        /\ (hdr.Time = ParentOfHdr.Time + Period - 1 /\ verifyExtra(hdr) = errNil)
                => res = ErrInvalidTimestamp

\* A header with timestamp parent.time + period was accepted.
C5_Witness ==
    /\ op = "VerifyHeader"
    /\ hdr.Number > 0
    /\ hdr.Time = ParentOfHdr.Time + Period
    /\ res = errNil

\* C5 as stated: a header whose timestamp equals parent.time + period is
\* rejected with InvalidTimestamp, one with parent.time + period + 1 is not.
C5_AsStated ==
    (op = "VerifyHeader" /\ hdr.Number > 0 /\ verifyExtra(hdr) = errNil) =>
        /\ hdr.Time = ParentOfHdr.Time + Period => res = ErrInvalidTimestamp
        /\ hdr.Time = ParentOfHdr.Time + Period + 1 => res # ErrInvalidTimestamp

-----------------------------------------------------------------------------
(* Block production. *)

\* C4: a header that the local validator prepared, sealed and delivered is
\* accepted by VerifyHeader.
C4_RoundTrip ==
    (op = "VerifySealed" /\ hdr.Coinbase = validator) => res = errNil

\* An out-of-turn epoch header of the local validator made the round trip.
C4_Witness ==
    /\ op = "VerifySealed"
    /\ hdr.Coinbase = validator
    /\ hdr.Difficulty = diffNoTurn
    /\ hdr.Number % Epoch = 0
    /\ res = errNil

\* C6: the timestamp Prepare sets is the later of parent.time + period and
\* the clock, so parent.time + period > header.time is false of it, and the
\* header is never rejected with InvalidTimestamp when it is verified.
C6_PrepareTime ==
    /\ (op = "Prepare" /\ res = errNil) =>
          /\ hdr.Time = (IF ParentOfHdr.Time + Period > now
                         THEN ParentOfHdr.Time + Period ELSE now)
          /\ ~(ParentOfHdr.Time + Period > hdr.Time)
    /\ op = "VerifySealed" => res # ErrInvalidTimestamp

\* A header that Prepare gave the timestamp parent.time + period, later than
\* the clock at that moment, was verified and accepted.
C6_Witness ==
    /\ op = "VerifySealed"
    /\ res = errNil
    /\ hdr.Time = ParentOfHdr.Time + Period
    /\ hdr.Time > Clock0

\* C8: the extra-data Prepare builds is 32 bytes of vanity (the extra-data
\* passed in, padded with zeros or cut), then on an epoch header the
\* validators the Validators contract ranks in the state of the parent, 20
\* bytes each in ascending order, and nothing on any other header, then 65
\* zero bytes.
C8_PrepareExtra ==
    (op = "Prepare" /\ res = errNil) =>
        LET input == work[1].extra
            top == ParentState(hdr).top
            embedded == ParseValidators(hdr.Extra)
            n == Len(hdr.Extra)
        IN /\ n = extraVanity + AddressLength * Len(embedded) + extraSeal
           /\ \A i \in 1..extraVanity :
                 hdr.Extra[i] = (IF i <= Len(input) THEN input[i] ELSE 0)
           /\ \A i \in (n - extraSeal + 1)..n : hdr.Extra[i] = 0
           /\ hdr.Number % Epoch # 0 => embedded = <<>>
           /\ hdr.Number % Epoch = 0 =>
                 /\ Len(embedded) = Len(top)
                 /\ {embedded[i] : i \in 1..Len(embedded)} = {top[i] : i \in 1..Len(top)}
                 /\ \A i \in 1..(Len(embedded) - 1) :
                       BytesLess(embedded[i], embedded[i + 1])

\* Prepare built an epoch header from extra-data longer than the vanity,
\* on a parent state where the contract ranks the validators out of order.
C8_Witness ==
    /\ op = "Prepare"
    /\ res = errNil
    /\ hdr.Number % Epoch = 0
    /\ Len(work[1].extra) > extraVanity
    /\ Len(ParentState(hdr).top) > 1
    /\ BytesLess(ParentState(hdr).top[2], ParentState(hdr).top[1])

-----------------------------------------------------------------------------
(* Finalize. *)

\* The bytes of the validators the Validators contract ranks in the state of
\* the parent of the header that Finalize was given, in ascending order.
ExpectedValidators == AddrListBytes(validatorsAscending(ParentState(hdr).top))

\* The epoch step of the last operation came to its comparison: the last of
\* its system calls was executed and did not fail.
EpochCompared ==
    /\ \E i \in 1..Len(calls) : calls[i].method = "decreaseMissedBlocksCounter"
    /\ ~(/\ calls[Len(calls)].method = "decreaseMissedBlocksCounter"
         /\ res = errExecutionReverted)

C10_FeeRecorderZero ==
    (/\ op = "Finalize"
     /\ res = errNil
     /\ work # <<>>
     /\ work[1].stage = "inserted"
     /\ \E i \in 1..Len(work[1].txs) :
           ~IsSysTransaction(work[1].txs[i].from, work[1].txs[i], hdr))
        => Get(work[1].state.balance, FeeRecoder) = 0


-----------------------------------------------------------------------------
(* The punishment of the validator that missed its turn. *)

\* The validator whose turn the block of hdr is, by the validators that
\* authorize it in ascending order.
InTurnValidator ==
    CHOOSE v \in AuthorizedAt(hdr.Number - 1) :
        InTurnOf(AuthorizedAt(hdr.Number - 1), hdr.Number, v)

\* The signers the snapshot at the parent of hdr holds as recent: those of
\* the last len(Validators)/2 + 1 blocks up to the parent.
ParentRecentSigners ==
    LET m == hdr.Number - 1
        limit == (Cardinality(AuthorizedAt(m)) \div 2) + 1
    IN {ecrecover(chain[k + 1]).addr : k \in {j \in 1..m : j > m - limit}}

\* The calls of the last operation that punish.
PunishCalls == {i \in 1..Len(calls) : calls[i].method = "punish"}

\* The last operation came to the punishment step: the initialization at
\* block 1 did not fail.
PunishStepReached ==
    \/ hdr.Number # 1
    \/ /\ res # errInvalidValidatorsLength
       /\ \E i \in 1..Len(calls) : calls[i].method # "initialize"

\* C11: when Finalize comes to the punishment step of a block of difficulty
\* 1, it makes exactly one punish call, for the validator at index number mod
\* |Validators| of the snapshot at the parent, if and only if that validator
\* signed none of the recent blocks of that snapshot; it makes no punish call
\* for a block of difficulty 2 or when that validator signed recently.
C11_PunishOutOfTurn ==
    (op = "Finalize" /\ hdr.Number >= 1 /\ PunishStepReached) =>
        IF hdr.Difficulty = diffNoTurn /\ InTurnValidator \notin ParentRecentSigners
        THEN /\ Cardinality(PunishCalls) = 1
             /\ \A i \in PunishCalls : /\ calls[i].arg = InTurnValidator
                                      /\ calls[i].to = GetPunishAddr(hdr.Number)
        ELSE PunishCalls = {}

\* Finalize of a block of difficulty 1 whose parent snapshot holds a recent
\* signer punished the validator that missed its turn.
C11_Witness ==
    /\ op = "Finalize"
    /\ res = errNil
    /\ hdr.Number = 2
    /\ hdr.Difficulty = diffNoTurn
    /\ ParentRecentSigners # {}
    /\ InTurnValidator \notin ParentRecentSigners
    /\ \E i \in PunishCalls : calls[i].arg = InTurnValidator


-----------------------------------------------------------------------------
(* The governance step. *)

\* The transactions of the block of the last insertion that are system
\* transactions, and the others, as Process splits them.
SystemTxs == SelectSeq(body, LAMBDA tx : IsSysTransaction(tx.from, tx, hdr))

CommonTxs == SelectSeq(body, LAMBDA tx : ~IsSysTransaction(tx.from, tx, hdr))

\* The state Finalize is entered with: the state of the parent after the
\* upgrade of the block and its common transactions.
FinalizeEntryState ==
    applyTransactions(PreHandle(ParentState(hdr), hdr, {}).state, CommonTxs).state

\* The proposals passed and not finished in that state, in contract order.
PassedAtEntry == FinalizeEntryState.passed

\* Finalize ran in the last operation, and what it returned: the state
\* validation comes after a Finalize that returned nil.
FinalizeRan == op \in {"Finalize", "ValidateState"}

FinalizeReturned == IF op = "ValidateState" THEN errNil ELSE res

\* The governance step of the last operation read the count of the passed
\* proposals.
GovernanceCounted ==
    /\ \E i \in 1..Len(calls) : calls[i].method = "getPassedProposalCount"
    /\ ~(/\ calls[Len(calls)].method = "getPassedProposalCount"
         /\ res \in {errExecutionReverted, errEmptyOutput})

\* C12: a block at a height where RedCoast is active that Finalize accepts
\* carries as many system transactions as the governance contract holds
\* passed proposals in the state Finalize is entered with; with another
\* count Finalize returns InvalidSysGovCount, and it has fetched and
\* executed no proposal before.
C12_SysGovCount ==
    (FinalizeRan /\ IsRedCoast(hdr.Number)) =>
        /\ FinalizeReturned = errNil => Len(SystemTxs) = Len(PassedAtEntry)
        /\ (GovernanceCounted /\ Len(SystemTxs) # Len(PassedAtEntry)) =>
              /\ op = "Finalize"
              /\ res = errInvalidSysGovCount
              /\ calls[Len(calls)].method = "getPassedProposalCount"
              /\ \A i \in 1..Len(calls) :
                    calls[i].method \notin {"getPassedProposalByIndex", "finishProposalById"}

\* A block that passes a proposal and carries no system transaction was
\* rejected with InvalidSysGovCount.
C12_Witness ==
    /\ op = "Finalize"
    /\ IsRedCoast(hdr.Number)
    /\ Len(PassedAtEntry) > 0
    /\ Len(SystemTxs) # Len(PassedAtEntry)
    /\ res = errInvalidSysGovCount

\* The calls of the governance step of the last operation after it read the
\* count of the passed proposals.
GovCalls ==
    LET counted == CHOOSE i \in 1..Len(calls) : calls[i].method = "getPassedProposalCount"
    IN SubSeq(calls, counted + 1, Len(calls))

\* The calls of a two-phase governance step on the proposals passed at the
\* entry: every proposal fetched by its index and executed, in index order,
\* then every proposal finished by its id, in the same order.
ExpectedGovCalls ==
    LET n == Len(PassedAtEntry)
        fetch(i) == SysGovMessage(hdr, "getPassedProposalByIndex", i - 1)
        execute(prop) == NewLegacyMessage(prop.From, prop.To, prop.Value, prop.Data.kind,
                                          prop.Data.arg)
        finish(prop) == SysGovMessage(hdr, "finishProposalById", prop.Id)
    IN [k \in 1..(3 * n) |->
          IF k > 2 * n THEN finish(PassedAtEntry[k - (2 * n)])
          ELSE IF k % 2 = 1 THEN fetch((k + 1) \div 2)
          ELSE execute(PassedAtEntry[k \div 2])]

IsPrefix(a, b) == Len(a) <= Len(b) /\ a = SubSeq(b, 1, Len(a))

\* C13: the governance step of Finalize and of FinalizeAndAssemble is
\* two-phase: the passed proposals are fetched and executed in index order;
\* finishProposalById is called only after the last execution, once for the
\* id of every executed proposal and in the same order; no finish comes
\* between two executions, in a step that fails as in one that returns nil.
C13_TwoPhaseGovernance ==
    (/\ (FinalizeRan \/ op = "FinalizeAndAssemble")
     /\ \E i \in 1..Len(calls) : calls[i].method = "getPassedProposalCount") =>
        /\ IsPrefix(GovCalls, ExpectedGovCalls)
        /\ (op = "ValidateState" \/ res = errNil) => GovCalls = ExpectedGovCalls

\* Finalize replayed a block with two passed proposals: both were executed,
\* then both were finished.
C13_Witness ==
    /\ op = "Finalize"
    /\ res = errNil
    /\ Len(PassedAtEntry) = 2
    /\ Len(GovCalls) = 6
    /\ GovCalls[5].method = "finishProposalById"
    /\ GovCalls[5].arg = PassedAtEntry[1].Id

\* The governance step of the last operation came to replay the system
\* transactions: the count was read and is theirs.
Replayed ==
    /\ FinalizeRan
    /\ IsRedCoast(hdr.Number)
    /\ GovernanceCounted
    /\ Len(SystemTxs) = Len(PassedAtEntry)

\* The i-th system transaction carries the encoding of the i-th passed
\* proposal and is sent by the coinbase.
SysTxMatches(i) ==
    /\ SystemTxs[i].data = EncodeProposal(PassedAtEntry[i])
    /\ SystemTxs[i].from = hdr.Coinbase

\* The errors of a system call that fails.
CallErrors == {errExecutionReverted, errEmptyOutput, errInsufficientBalance}

-----------------------------------------------------------------------------
(* The access controller. *)

\* The direction an address is listed with in the AddressList contract of
\* a state: the lists it is on.
ListedFrom(st, addr) == Contains(st.blacksFrom, addr)

ListedTo(st, addr) == Contains(st.blacksTo, addr)

\* C15: ValidateTx returns AddressDenied exactly when the sender is on the
\* blacklist of the parent state with direction From or Both (it is on the
\* list of froms), or the transaction has a recipient that is on it with
\* direction To or Both (it is on the list of tos); an address listed From
\* only is denied as sender and admitted as recipient.
C15_ValidateTx ==
    op = "ValidateTx" =>
        (res = ErrAddressDenied <=>
            \/ ListedFrom(query[1].state, query[1].sender)
            \/ /\ query[1].tx.to # NilTo
               /\ ListedTo(query[1].state, query[1].tx.to))

\* A transaction to the address X, listed as From only, was admitted.
C15_Witness ==
    /\ op = "ValidateTx"
    /\ query[1].tx.to = AddrX
    /\ ListedFrom(query[1].state, AddrX)
    /\ ~ListedTo(query[1].state, AddrX)
    /\ ~ListedFrom(query[1].state, query[1].sender)
    /\ res = errNil

\* The variables enabled and devs[addr] of the AddressList contract of a
\* state, by the layout Solidity gives them.
DevVerifyEnabled(st) == GetState(st, ZeroHash) = AddressListSlot0(AddrE, 1, 1)

IsDeveloper(st, addr) == GetState(st, DevSlot(addr)) = Uint256(1)

\* C16 as stated: at a height where RedCoast is active CanCreate returns
\* false when the verification of developers is enabled in the contract and
\* addr is no developer, true when it is enabled and addr is a developer,
\* true when it is not enabled; before RedCoast it returns true.
C16_AsStated ==
    op = "CanCreate" =>
        (query[1].out = FALSE <=>
            /\ IsRedCoast(query[1].height)
            /\ DevVerifyEnabled(query[1].state)
            /\ ~IsDeveloper(query[1].state, query[1].addr))

\* C16: in an engine configured with EnableDevVerification, CanCreate at a
\* height where RedCoast is active returns false when the verification of
\* developers is enabled in the contract and addr is no developer, true
\* when it is enabled and addr is a developer, and true when it is not
\* enabled; before RedCoast, and in an engine configured without
\* EnableDevVerification, it returns true.
C16_CanCreate ==
    op = "CanCreate" =>
        (query[1].out = FALSE <=>
            /\ IsRedCoast(query[1].height)
            /\ config.EnableDevVerification
            /\ DevVerifyEnabled(query[1].state)
            /\ ~IsDeveloper(query[1].state, query[1].addr))

\* An engine configured with EnableDevVerification refused an address that
\* is no developer while another address is one.
C16_Witness ==
    /\ op = "CanCreate"
    /\ query[1].out = FALSE
    /\ config.EnableDevVerification
    /\ IsRedCoast(query[1].height)
    /\ DevVerifyEnabled(query[1].state)
    /\ query[1].addr = AddrD
    /\ IsDeveloper(query[1].state, AddrX)

\* C17: IsSysTransaction is true exactly when the transaction has a
\* recipient, the sender is the coinbase of the header, and the recipient is
\* GovernanceTo with a gas price of zero or is the governance contract; it is
\* false for a contract creation and for a sender that is not the coinbase.
C17_IsSysTransaction ==
    op = "IsSysTransaction" =>
        /\ query[1].out = TRUE <=>
              /\ query[1].tx.to # NilTo
              /\ query[1].sender = hdr.Coinbase
              /\ \/ query[1].tx.to = SysGovToAddr /\ query[1].tx.gasPrice = 0
                 \/ query[1].tx.to = SysGovContractAddr
        /\ query[1].tx.to = NilTo => query[1].out = FALSE
        /\ query[1].sender # hdr.Coinbase => query[1].out = FALSE

\* A transaction of the coinbase to GovernanceTo at a gas price is no
\* system transaction.
C17_Witness ==
    /\ op = "IsSysTransaction"
    /\ query[1].sender = hdr.Coinbase
    /\ query[1].tx.to = SysGovToAddr
    /\ query[1].tx.gasPrice = 1
    /\ query[1].out = FALSE


-----------------------------------------------------------------------------
(* Batched verification. *)

\* The results the goroutine has sent so far, received or not.
Sent == batch[1].got \o batch[1].results

\* The verification of the k-th header of the batch with the headers before
\* it as parents.
ResultOf(k) ==
    verifyHeader(batch[1].headers[k], SubSeq(batch[1].headers, 1, k - 1), now, {}, {}).err

\* The results come in the order of the input, the i-th being the
\* verification of headers[i] with headers[0..i-1] as parents; the goroutine
\* never waits for the reader, and when it ends without an abort it has
\* sent one result for every header.
C18_OrderAndCapacity ==
    batch # <<>> =>
        /\ Len(Sent) <= Len(batch[1].headers)
        /\ \A k \in 1..Len(Sent) : Sent[k] = ResultOf(k)
        /\ batch[1].running => Len(batch[1].results) < resultsCapacity(batch[1].headers)
        /\ (~batch[1].running /\ ~batch[1].abort) => Len(Sent) = Len(batch[1].headers)

\* C18 as stated: the results of VerifyHeaders come in input order, the i-th
\* being the verification of headers[i] with headers[0..i-1] as parents;
\* without an abort there are len(headers) results and the goroutine never
\* waits for the reader; once abort is signalled the goroutine sends no
\* result for a header it had not verified by then.
C18_VerifyHeaders ==
    /\ C18_OrderAndCapacity
    /\ (batch # <<>> /\ batch[1].abort) => Len(Sent) <= batch[1].abortedAt


-----------------------------------------------------------------------------
(* The goroutine of Seal. *)

\* The state of the Seal the miner called last: <<>> before the goroutine
\* of a Seal is started.
Sealing == IF work = <<>> THEN <<>> ELSE work[1].seal

\* C19: when the stop channel is closed before the delay of Seal is over,
\* the goroutine ends and no block is ever sent on the results channel;
\* otherwise at most one block is sent for a call of Seal; the goroutine
\* never waits for the results channel: a block that cannot be sent at once
\* is dropped.
C19_SealCancellation ==
    Sealing # <<>> =>
        /\ Sealing[1].sent <= 1
        /\ Sealing[1].sent = 1 <=> work[1].stage \in {"delivered", "verified"}
        /\ Sealing[1].early => /\ Sealing[1].sent = 0
                               /\ work[1].stage \in {"sealing", "stopped"}
        /\ (work[1].stage = "sealing" /\ Sealing[1].early) => ENABLED Deliver("stop", TRUE)
        /\ (work[1].stage = "sealing" /\ ~Sealing[1].early /\ now >= Sealing[1].until)
              => ENABLED Deliver("timer", FALSE)
        /\ Sealing[1].ready = <<FALSE>> => work[1].stage = "dropped"
        /\ work[1].stage = "dropped" => Sealing[1].ready = <<FALSE>> /\ Sealing[1].sent = 0

\* A Seal stopped while it waited has ended with no block sent, at a time
\* not before the time of its header.
C19_Witness ==
    /\ Sealing # <<>>
    /\ Sealing[1].early
    /\ work[1].stage = "stopped"
    /\ now >= work[1].header.Time


-----------------------------------------------------------------------------
(* The initialization of the system contracts. *)

\* The validators of the genesis block, in ascending order.
GenesisValidators == validatorsAscending(ParseValidators(chain[1].Extra))

\* The three calls of the initialization of the block hdr.
InitializeCalls ==
    <<NewLegacyMessage(hdr.Coinbase, ValidatorsContractAddr, 0, "initialize",
                       GenesisValidators),
      NewLegacyMessage(hdr.Coinbase, PunishContractAddr, 0, "initialize", <<>>),
      NewLegacyMessage(hdr.Coinbase, ProposalAddr, 0, "initialize", GenesisValidators)>>

\* C20: Finalize calls initialize on the Validators, the Punish and the
\* Proposal contract, in that order and with the validators of the genesis
\* block, at block 1 before any other step, and at no other block; with no
\* genesis validator, or with more than 21, it returns
\* errInvalidValidatorsLength and calls nothing, with one validator it goes
\* on; a call that fails is the last call, and Finalize returns its error.
C20_InitializeAtBlockOne ==
    FinalizeRan =>
        IF hdr.Number # 1
        THEN \A i \in 1..Len(calls) : calls[i].method # "initialize"
        ELSE IF Len(GenesisValidators) = 0 \/ Len(GenesisValidators) > maxValidators
        THEN FinalizeReturned = errInvalidValidatorsLength /\ calls = <<>>
        ELSE /\ FinalizeReturned # errInvalidValidatorsLength
             /\ IsPrefix(calls, InitializeCalls) \/ IsPrefix(InitializeCalls, calls)
             /\ \A i \in 4..Len(calls) : calls[i].method # "initialize"
             /\ Len(calls) < 3 =>
                   /\ calls # <<>>
                   /\ FinalizeReturned \in {errExecutionReverted, errInsufficientBalance}

\* Finalize of block 1 on a genesis block with one validator has made the
\* three calls, then punished, and returned nil.
C20_Witness ==
    /\ FinalizeRan
    /\ hdr.Number = 1
    /\ Len(GenesisValidators) = 1
    /\ FinalizeReturned = errNil
    /\ Len(calls) > 3
    /\ IsPrefix(InitializeCalls, calls)


-----------------------------------------------------------------------------
(* Three validators in rotation. *)

\* The signer of a sealed header.
SignerOf(header) == ecrecover(header).addr

\* The header verified last is a child, due by the clock, of the block of
\* the chain before it, and every block of the chain up to that one was
\* sealed by the validator signers[n] for its number n, counted from first.
RotationUpTo(signers, first) ==
    /\ op = "VerifyHeader"
    /\ hdr.Number \in 1..Len(chain)
    /\ hdr.ParentHash = HeaderHash(chain[hdr.Number])
    /\ hdr.Time <= now
    /\ \A n \in 1..(hdr.Number - 1) :
          SignerOf(chain[n + 1]) = signers[((n - first) % Len(signers)) + 1]

\* C21 as stated: with the validators A, B, C in ascending order, the
\* blocks 1..6 sealed by A, B, C, A, B, C with difficulty 2 are accepted
\* one after the other.
C21_AsStated ==
    (/\ RotationUpTo(<<AddrA, AddrB, AddrC>>, 1)
     /\ hdr.Number <= 6
     /\ SignerOf(hdr) = <<AddrA, AddrB, AddrC>>[((hdr.Number - 1) % 3) + 1]
     /\ hdr.Difficulty = diffInTurn)
        => res = errNil

\* C21: with the validators A, B, C in ascending order, the validator in
\* turn at block n is the one at index n mod 3: the blocks 1..6 sealed by
\* B, C, A, B, C, A with difficulty 2 are accepted one after the other, and
\* a block that the signer of the block before it seals again is rejected
\* with errRecentlySigned, as block 4 sealed by A is.
C21_Rotation ==
    RotationUpTo(<<AddrA, AddrB, AddrC>>, 0) =>
        /\ (SignerOf(hdr) = TurnAt(hdr.Number) /\ hdr.Difficulty = diffInTurn)
              => res = errNil
        /\ (hdr.Number >= 2 /\ SignerOf(hdr) = TurnAt(hdr.Number - 1))
              => res = errRecentlySigned
        /\ TurnAt(hdr.Number) = <<AddrA, AddrB, AddrC>>[(hdr.Number % 3) + 1]

\* Block 4, sealed out of turn by A after B, C, A sealed the blocks 1, 2
\* and 3, was rejected.
C21_Witness ==
    /\ RotationUpTo(<<AddrA, AddrB, AddrC>>, 0)
    /\ hdr.Number = 4
    /\ SignerOf(hdr) = AddrA
    /\ hdr.Difficulty = diffNoTurn
    /\ res = errRecentlySigned


-----------------------------------------------------------------------------
(* The order of the steps of Finalize and FinalizeAndAssemble. *)

\* The call of Finalize or FinalizeAndAssemble made last.
StepsRan == query # <<>> /\ op \in {"Finalize", "FinalizeAndAssemble"}

\* The step a logged call belongs to: 1 the initialization, 2 the
\* punishment, 3 the reward, 4 and 5 the two calls of the epoch, 6 the
\* governance with the calls its proposals make.
StepOf(msg) ==
    CASE msg.method = "initialize" -> 1
      [] msg.method = "punish" -> 2
      [] msg.method = "distributeBlockReward" -> 3
      [] msg.method = "updateActiveValidatorSet" -> 4
      [] msg.method = "decreaseMissedBlocksCounter" -> 5
      [] OTHER -> 6

StepsLogged == {StepOf(calls[i]) : i \in 1..Len(calls)}

\* C22: the calls of one Finalize or FinalizeAndAssemble come in the order
\* of the steps: initialization, punishment, reward, updateActiveValidatorSet
\* then decreaseMissedBlocksCounter, governance; each of the steps 2 to 5
\* calls once at most; a call that fails is the last call; a run that
\* returns nil has taken the initialization at block 1 only, both calls of
\* the epoch at an epoch block only, the governance from RedCoast on, and
\* has then set the root of the state it left and the uncle hash.
C22_StepOrder ==
    StepsRan =>
        /\ \A i \in 1..Len(calls), j \in 1..Len(calls) :
              i < j => /\ StepOf(calls[i]) <= StepOf(calls[j])
                       /\ StepOf(calls[i]) \in 2..5 => StepOf(calls[i]) < StepOf(calls[j])
        /\ \A i \in 1..Len(calls) :
              calls[i].method \in query[1].faults => i = Len(calls) /\ res # errNil
        /\ ("getTopValidators" \in query[1].faults /\ query[1].header.Number % Epoch = 0)
              => res # errNil /\ StepsLogged \cap {4, 5, 6} = {}
        /\ 2 \in StepsLogged => query[1].header.Difficulty # diffInTurn
        /\ 3 \in StepsLogged => body # <<>>
        /\ res = errNil =>
              /\ 1 \in StepsLogged <=> query[1].header.Number = 1
              /\ {4, 5} \subseteq StepsLogged <=> query[1].header.Number % Epoch = 0
              /\ {4, 5} \cap StepsLogged # {} => query[1].header.Number % Epoch = 0
              /\ 6 \in StepsLogged <=> IsRedCoast(query[1].header.Number)
              /\ hdr = [query[1].header EXCEPT !.Root = IntermediateRoot(query[1].state),
                                                !.UncleHash = uncleHash]

\* A Finalize that took the steps 2 to 6 and returned nil.
C22_Witness ==
    /\ StepsRan
    /\ op = "Finalize"
    /\ res = errNil
    /\ {2, 3, 4, 5, 6} \subseteq StepsLogged
    /\ \E i \in 1..Len(calls) : calls[i].method = "finishProposalById"


-----------------------------------------------------------------------------
(* The errors of the system calls in Finalize and FinalizeAndAssemble. *)

\* The system method whose call failed in the last run, <<>> when none did.
FailedMethod ==
    IF ~StepsRan THEN <<>>
    ELSE IF calls # <<>> /\ calls[Len(calls)].method \in query[1].faults
    THEN <<calls[Len(calls)].method>>
    ELSE IF "getTopValidators" \in query[1].faults /\ query[1].header.Number % Epoch = 0
    THEN <<"getTopValidators">>
    ELSE <<>>

\* The methods whose error FinalizeAndAssemble answers with panic(err).
PanicMethods ==
    {"initialize", "punish", "distributeBlockReward", "getTopValidators",
     "updateActiveValidatorSet", "decreaseMissedBlocksCounter"}

\* The errors as the code treats them: Finalize returns the error of any
\* failing system call; FinalizeAndAssemble panics on the error of the first
\* four steps and returns the error of a governance call, with no block in
\* either case.
C25_ErrorsAsCoded ==
    FailedMethod # <<>> =>
        /\ op = "Finalize" => res = errExecutionReverted
        /\ op = "FinalizeAndAssemble" =>
              res = (IF FailedMethod[1] \in PanicMethods THEN errPanic
                     ELSE errExecutionReverted)

\* C25 as stated: the error of every system call of Finalize (initialize,
\* punish, distributeBlockReward, getTopValidators, updateActiveValidatorSet,
\* decreaseMissedBlocksCounter, getPassedProposalCount,
\* getPassedProposalByIndex, finishProposalById) is returned to the caller,
\* and in FinalizeAndAssemble the error of every system call is a panic.
C25_SystemCallErrors ==
    FailedMethod # <<>> =>
        /\ op = "Finalize" => res = errExecutionReverted
        /\ op = "FinalizeAndAssemble" => res = errPanic

\* Each of the nine methods has failed in Finalize and in FinalizeAndAssemble.
C25_FailedIn(fn) ==
    {m \in SystemMethods : StepsRan /\ op = fn /\ FailedMethod = <<m>>}


-----------------------------------------------------------------------------
(* The value of a proposal at its execution. *)

\* The calls the proposals of the last run made: every other call of
\* Finalize is a call of the coinbase.
EvmCalls == SelectSeq(calls, LAMBDA msg : msg.from # hdr.Coinbase)

\* The proposals of action 0 among those passed at the entry.
EvmProposals == SelectSeq(PassedAtEntry, LAMBDA prop : prop.Action = 0)

\* The value of the system transaction of every proposal executed in the
\* last run is zero from Sophon on and the value of the proposal before.
SystemTxValues ==
    \A i \in 1..Len(SystemTxs) :
        SystemTxs[i].value = (IF IsSophon(hdr.Number) THEN 0 ELSE PassedAtEntry[i].Value)

\* The values as the code sets them: the system transaction follows Sophon,
\* the call of a proposal of action 0 carries the value of the proposal at
\* every height.
C23_ValuesAsCoded ==
    StepsRan =>
        /\ SystemTxValues
        /\ Len(EvmCalls) <= Len(EvmProposals)
        /\ \A k \in 1..Len(EvmCalls) : EvmCalls[k].value = EvmProposals[k].Value

\* C23 as stated: from the Sophon height on the value of the system
\* transaction of a proposal and the value of the call of a proposal of
\* action 0 are zero; before Sophon both are the value of the proposal.
C23_SophonValue ==
    StepsRan =>
        /\ SystemTxValues
        /\ \A k \in 1..Len(EvmCalls) :
              EvmCalls[k].value = (IF IsSophon(hdr.Number) THEN 0 ELSE EvmProposals[k].Value)

\* A proposal with a value was executed before Sophon, at Sophon and after.
C23_Executed(number) ==
    /\ StepsRan
    /\ hdr.Number = number
    /\ res = errNil
    /\ \E k \in 1..Len(EvmCalls) : EvmProposals[k].Value > 0
    /\ \E i \in 1..Len(SystemTxs) : PassedAtEntry[i].Value > 0


-----------------------------------------------------------------------------
(* The outcome of the execution of a proposal. *)

\* The call of the proposal prop fails on the state Finalize is entered
\* with: it reverts, or its sender does not own the value.
CallFails(prop) ==
    \/ prop.Data.kind \in query[1].faults
    \/ prop.Value > Get(FinalizeEntryState.balance, prop.From)

\* There is code at addr when Finalize is entered.
CodeAtEntry(addr) == addr \in SystemContracts /\ addr \notin FinalizeEntryState.code

\* The proposals passed at the entry of the given action.
PassedOf(actions) ==
    {PassedAtEntry[i] : i \in {k \in 1..Len(PassedAtEntry) :
                                  PassedAtEntry[k].Action \in actions}}

\* C24: the execution of a proposal never fails the block. From the
\* RedCoast block on, where the governance step runs, Finalize and
\* FinalizeAndAssemble return nil whatever the proposals do, with one
\* receipt for every passed proposal: for action 0 it is failed exactly when
\* the call returns an error; for action 1 the code at To is erased and the
\* receipt is successful exactly when there was code; for any other action
\* it is failed and no call is made nor code erased (the ranking, which
\* the initialization of block 1 sets, and the balances are as the calls
\* that went through leave them); the nonce of the
\* coinbase rises by one for every proposal, and every proposal, failed or
\* not, is finished.
C24_ProposalOutcome ==
    StepsRan /\ IsRedCoast(hdr.Number) =>
        /\ res = errNil
        /\ Len(query[1].receipts) = Len(PassedAtEntry)
        /\ \A i \in 1..Len(PassedAtEntry) :
              query[1].receipts[i].failed =
                  (CASE PassedAtEntry[i].Action = 0 -> CallFails(PassedAtEntry[i])
                     [] PassedAtEntry[i].Action = 1 -> ~CodeAtEntry(PassedAtEntry[i].To)
                     [] OTHER -> TRUE)
        /\ Len(EvmCalls) = Len(EvmProposals)
        /\ \A k \in 1..Len(EvmCalls) :
              /\ EvmCalls[k].to = EvmProposals[k].To
              /\ EvmCalls[k].method = EvmProposals[k].Data.kind
        /\ query[1].state.code =
              FinalizeEntryState.code \cup {prop.To : prop \in PassedOf({1})}
        /\ IF RankProposal \in PassedOf({0}) /\ ~CallFails(RankProposal)
           THEN query[1].state.top = RankProposal.Data.arg
           ELSE IF hdr.Number = 1 THEN query[1].state.top # RankProposal.Data.arg
           ELSE query[1].state.top = FinalizeEntryState.top
        /\ Get(query[1].state.balance, AddrD) = Get(FinalizeEntryState.balance, AddrD)
        /\ Get(query[1].state.balance, AddrE) =
              Get(FinalizeEntryState.balance, AddrE)
                - (IF TransferProposal \in PassedOf({0}) THEN TransferProposal.Value ELSE 0)
        /\ Get(query[1].state.nonce, hdr.Coinbase) =
              Get(FinalizeEntryState.nonce, hdr.Coinbase) + Len(PassedAtEntry)
        /\ query[1].state.passed = <<>>
        /\ \A i \in 1..Len(PassedAtEntry) :
              \E j \in 1..Len(calls) :
                  /\ calls[j].method = "finishProposalById"
                  /\ calls[j].arg = PassedAtEntry[i].Id
                  /\ \A k \in 1..Len(calls) : calls[k].from # hdr.Coinbase => k < j

\* Finalize replayed a block with three proposals: the transfer failed, the
\* unknown action failed, the change of the ranking went through, and all
\* three were finished.
C24_Witness ==
    /\ StepsRan
    /\ op = "Finalize"
    /\ res = errNil
    /\ Len(PassedAtEntry) = 3
    /\ PassedAtEntry[2].Action = 2
    /\ [i \in 1..Len(query[1].receipts) |-> query[1].receipts[i].failed] = <<TRUE, TRUE, FALSE>>
    /\ query[1].state.passed = <<>>

\* Finalize erased the code of a contract, and found none at another address.
C24_Erased ==
    /\ StepsRan
    /\ op = "Finalize"
    /\ Len(PassedAtEntry) = 2
    /\ PassedAtEntry[1].Action = 1
    /\ CodeAtEntry(PassedAtEntry[1].To)
    /\ [i \in 1..Len(query[1].receipts) |-> query[1].receipts[i].failed] = <<FALSE, TRUE>>

\* Finalize was asked to erase code that an earlier block had erased.
C24_ErasedTwice ==
    /\ StepsRan
    /\ PunishContractAddr \in FinalizeEntryState.code
    /\ [i \in 1..Len(query[1].receipts) |-> query[1].receipts[i].failed] = <<TRUE, TRUE>>


-----------------------------------------------------------------------------
(* The logs the validator of the EVM denies. *)

\* The direction the blacklist of the last call holds for addr, if any.
DirectionsOf(addr) == {p[2] : p \in {q \in query[1].blacks : q[1] = addr}}

\* The address in the topic at index idx of the log of the last call.
TopicAddress(idx) ==
    SubSeq(query[1].log[1].Topics[idx + 1], HashLength - AddressLength + 1, HashLength)

\* The checks of the rule for the first topic of the log of the last call.
ChecksOfLog ==
    IF query[1].log = <<>> \/ query[1].log[1].Topics = <<>> THEN {}
    ELSE UNION {p[2].Checks : p \in {q \in query[1].rules :
                                    q[1] = query[1].log[1].Topics[1]}}

\* C26: IsLogDenied returns true exactly when the log has more than one
\* topic, there is a rule for its first topic, and for some check of the
\* rule whose index is below the number of topics the address in that topic
\* is on the blacklist with a direction the check type denies (From: From
\* or Both; To: To or Both; Both: any); a nil log, a log without a rule and
\* a check whose index is not below the number of topics deny nothing.
C26_LogDenied ==
    op = "IsLogDenied" =>
        (query[1].out <=>
            /\ query[1].log # <<>>
            /\ Len(query[1].log[1].Topics) > 1
            /\ \E check \in ChecksOfLog :
                  /\ check[1] < Len(query[1].log[1].Topics)
                  /\ \/ check[2] = CheckFrom /\ DirectionsOf(TopicAddress(check[1]))
                                                   \cap {DirectionFrom, DirectionBoth} # {}
                     \/ check[2] = CheckTo /\ DirectionsOf(TopicAddress(check[1]))
                                                 \cap {DirectionTo, DirectionBoth} # {}
                     \/ check[2] = CheckBothInAny /\ DirectionsOf(TopicAddress(check[1])) # {})

\* A log was denied by the check of To of a rule with two checks, on its
\* third topic.
C26_Witness ==
    /\ op = "IsLogDenied"
    /\ query[1].out
    /\ query[1].log # <<>>
    /\ Len(query[1].log[1].Topics) = 3
    /\ ChecksOfLog = {<<1, CheckFrom>>, <<2, CheckTo>>}
    /\ DirectionsOf(TopicAddress(1)) = {}
    /\ DirectionsOf(TopicAddress(2)) = {DirectionTo}

\* A check beyond the topics of the log was skipped.
C26_Skipped ==
    /\ op = "IsLogDenied"
    /\ ~query[1].out
    /\ query[1].log # <<>>
    /\ Len(query[1].log[1].Topics) = 2
    /\ ChecksOfLog = {<<2, CheckBothInAny>>}


-----------------------------------------------------------------------------
(* The upgrades of the system contracts. *)

\* The steps of a version in order: Update then Execute of each upgrade.
StepsOfVersion(version) ==
    [k \in 1..(2 * Len(sysContracts(version))) |->
        <<sysContracts(version)[(k + 1) \div 2], IF k % 2 = 1 THEN "Update" ELSE "Execute">>]

\* The steps the last PreHandle added to the state it was given.
UpgradeSteps ==
    SubSeq(query[1].state.upgrades, Len(query[1].before.upgrades) + 1,
           Len(query[1].state.upgrades))

\* The steps due at a height: version 1 at RedCoast, version 2 at Sophon
\* unless that is the height of RedCoast too, none elsewhere.
StepsDue(number) ==
    IF number = RedCoastBlock THEN StepsOfVersion(SysContractV1)
    ELSE IF config.SophonBlock # NilInt /\ number = config.SophonBlock
    THEN StepsOfVersion(SysContractV2)
    ELSE <<>>

\* The steps due before the first of them that fails.
StepsBeforeFault(due, faults) ==
    IF \E k \in 1..Len(due) : due[k] \in faults
    THEN SubSeq(due, 1, (CHOOSE k \in 1..Len(due) :
                            due[k] \in faults /\ \A j \in 1..(k - 1) : due[j] \notin faults) - 1)
    ELSE due

\* The upgrades in the state of every block of the chain: version 1 from
\* RedCoast on, then version 2 from Sophon on, each step once.
UpgradedOnce ==
    \A i \in 1..Len(chain) :
        stateFn(chain[i].Root).state.upgrades =
            (IF chain[i].Number >= RedCoastBlock THEN StepsOfVersion(SysContractV1) ELSE <<>>)
              \o (IF /\ config.SophonBlock # NilInt
                     /\ config.SophonBlock # RedCoastBlock
                     /\ chain[i].Number >= config.SophonBlock
                  THEN StepsOfVersion(SysContractV2) ELSE <<>>)

\* C27 with the case of one height for both forks: PreHandle applies
\* version 1 (SysGov, AddressList, ValidatorsV1, PunishV1, Update then
\* Execute of each, in that order) exactly at RedCoast, version 2
\* (AddressListV2, ValidatorsV2) exactly at a Sophon height that is not the
\* height of RedCoast, and leaves the state as it is at every other height;
\* it stops at the first step that fails and returns its error; the state
\* of every block holds each version once, from its fork on.
C27_UpgradeOnce ==
    /\ UpgradedOnce
    /\ op = "PreHandle" =>
          /\ UpgradeSteps = StepsBeforeFault(StepsDue(hdr.Number), query[1].faults)
          /\ res = (IF \E k \in 1..Len(StepsDue(hdr.Number)) :
                          StepsDue(hdr.Number)[k] \in query[1].faults
                    THEN errUpgrade ELSE errNil)
          /\ StepsDue(hdr.Number) = <<>> => query[1].state = query[1].before

\* C27 as stated: upgrades are applied once, at the activation block only:
\* version 1 exactly at RedCoast and version 2 exactly at Sophon, in the
\* order of their lists, the state unchanged at every other height, at most
\* one version per block, stopping at the first Update or Execute error.
C27_AsStated ==
    /\ C27_UpgradeOnce
    /\ (op = "PreHandle" /\ query[1].faults = {}) =>
          /\ hdr.Number = RedCoastBlock => UpgradeSteps = StepsOfVersion(SysContractV1)
          /\ (config.SophonBlock # NilInt /\ hdr.Number = config.SophonBlock)
                => UpgradeSteps = StepsOfVersion(SysContractV2)

\* The second upgrade of version 1 failed in Execute: PreHandle returned
\* the error after three steps.
C27_Witness ==
    /\ op = "PreHandle"
    /\ hdr.Number = RedCoastBlock
    /\ query[1].faults = {<<"AddressList", "Execute">>}
    /\ res = errUpgrade
    /\ Len(UpgradeSteps) = 3

\* Version 2 was applied at Sophon, on a state that holds version 1.
C27_Sophon ==
    /\ op = "PreHandle"
    /\ res = errNil
    /\ hdr.Number = config.SophonBlock
    /\ UpgradeSteps = StepsOfVersion(SysContractV2)
    /\ query[1].before.upgrades = StepsOfVersion(SysContractV1)


-----------------------------------------------------------------------------
(* The seal hash. *)

\* The fields of a header that encodeSigHeader lists, but the extra-data.
HashedFields ==
    {"ParentHash", "UncleHash", "Coinbase", "Root", "TxHash", "ReceiptHash", "Bloom",
     "Difficulty", "Number", "GasLimit", "GasUsed", "Time", "MixDigest", "Nonce"}

\* The extra-data of a header in front of its last 65 bytes.
BeforeSeal(h) == SubSeq(h.Extra, 1, Len(h.Extra) - extraSeal)

\* C28: two headers with extra-data of 65 bytes or more have the same seal
\* hash exactly when they agree on every hashed field and on the extra-data
\* in front of the last 65 bytes: the last 65 bytes do not count, so a
\* header has the seal hash it had before the signature was written into
\* it, and a difference in any other hashed field gives another hash.
C28_SealHash ==
    op = "SealHash" =>
        /\ (query[1].hashA = query[1].hashB) <=>
              /\ \A f \in HashedFields : query[1].a[f] = query[1].b[f]
              /\ BeforeSeal(query[1].a) = BeforeSeal(query[1].b)
        /\ \A key \in {AddrA, AddrB} :
              query[1].b = SignHeader(query[1].a, key) => query[1].hashA = query[1].hashB

\* The header Prepare left and the header with the signature of a
\* validator in it have the same seal hash, and differ.
C28_Witness ==
    /\ op = "SealHash"
    /\ query[1].a.Number = Len(chain)
    /\ Len(query[1].a.Extra) > extraSeal
    /\ query[1].b = SignHeader(query[1].a, AddrA)
    /\ query[1].a # query[1].b
    /\ query[1].hashA = query[1].hashB

\* Two headers that differ in the byte in front of the seal, and in the
\* seal, have different seal hashes.
C28_Differs ==
    /\ op = "SealHash"
    /\ Len(query[1].a.Extra) = Len(query[1].b.Extra)
    /\ BeforeSeal(query[1].a) # BeforeSeal(query[1].b)
    /\ \A f \in HashedFields : query[1].a[f] = query[1].b[f]
    /\ query[1].hashA # query[1].hashB

-----------------------------------------------------------------------------
(* The coherence of the caches of the blacklist and of the rules. *)

\* The state of the block of the chain with this hash.
StateOfHash(hash) ==
    stateFn((CHOOSE h \in {chain[i] : i \in 1..Len(chain)} : HeaderHash(h) = hash).Root).state

\* The entries of a cache are the maps of blocks of the chain.
OnChain(cache) ==
    \A e \in cache : \E i \in 1..Len(chain) : HeaderHash(chain[i]) = e[1]

\* C29: past the Sophon block, every blacklist and every map of rules the
\* engine holds for a parent hash or returns for a header, be it cached,
\* carried over from the entry of the grandparent or read, is the map built
\* from what the AddressList contract returns on the state of the parent.
C29_CacheCoherence ==
    /\ OnChain(blacklists) /\ OnChain(eventCheckRules)
    /\ \A e \in blacklists :
          /\ readBlacklist(PendingHeader, StateOfHash(e[1]), {}).err = errNil
          /\ e[2] = readBlacklist(PendingHeader, StateOfHash(e[1]), {}).m
    /\ \A e \in eventCheckRules :
          /\ readEventCheckRules(PendingHeader, StateOfHash(e[1]), {}).err = errNil
          /\ e[2] = readEventCheckRules(PendingHeader, StateOfHash(e[1]), {}).m
    /\ op = "CreateEvmExtraValidator" /\ hdr.Number > SophonBlock
          => /\ query[1].validator # <<>>
             /\ query[1].state = StateOfHash(hdr.ParentHash)
             /\ query[1].validator[1].blacks = readBlacklist(hdr, query[1].state, {}).m
             /\ query[1].validator[1].rules = readEventCheckRules(hdr, query[1].state, {}).m

\* The validator of a pending block was built from a blacklist and rules
\* that were both carried over, after updates of both past the Sophon
\* block.
C29_Witness ==
    /\ op = "CreateEvmExtraValidator"
    /\ query[1].carried = <<TRUE, TRUE>>
    /\ lastBlacklistUpdatedNumber(query[1].state) > 0
    /\ lastRulesUpdatedNumber(query[1].state) > 0
    /\ query[1].validator # <<>>
    /\ query[1].validator[1].blacks # {}
    /\ query[1].validator[1].rules # {}

\* The blacklist of a pending block was read anew because the parent block
\* updated it, while the cache held the entry of the grandparent.
C29_ReadAfterUpdate ==
    /\ op = "CreateEvmExtraValidator"
    /\ query[1].validator # <<>>
    /\ query[1].carried[1] = FALSE
    /\ hdr.Number = lastBlacklistUpdatedNumber(query[1].state) + 1
    /\ hdr.Number >= 2
    /\ \E e \in blacklists :
          /\ e[1] = GetHeader(hdr.ParentHash, hdr.Number - 1)[1].ParentHash
          /\ e[2] # query[1].validator[1].blacks

-----------------------------------------------------------------------------
(* The double-checked lock of the caches. *)

\* The goroutines that run the function of goroutine i for its parent hash.
SameCall(i) ==
    {j \in 1..Len(callers) :
        /\ callers[j].kind = callers[i].kind
        /\ callers[j].header.ParentHash = callers[i].header.ParentHash}

\* Goroutine i has returned a map.
Returned(i) == callers[i].pc = "done" /\ callers[i].err = errNil

\* C30: however the goroutines inside getBlacklist (or getEventCheckRules)
\* for one parent hash interleave, at most one of them reads the map from
\* the contract, none comes to the read or to the Add while the cache holds
\* the entry, and all that return a map return the same one, the entry of
\* the cache.
C30_DoubleChecked ==
    \A i \in 1..Len(callers) :
       /\ Cardinality({j \in SameCall(i) : callers[j].read /\ callers[j].err = errNil}) <= 1
       /\ callers[i].pc \in {"carry", "read", "add"}
             => /\ locks[callers[i].kind] = i
                /\ lookUp(cacheOf(callers[i].kind), callers[i].header.ParentHash) = <<>>
       /\ Returned(i)
             => /\ lookUp(cacheOf(callers[i].kind), callers[i].header.ParentHash)
                      = <<callers[i].m>>
                /\ \A j \in SameCall(i) : Returned(j) => callers[j].m = callers[i].m

\* Two goroutines missed the first look for the same parent hash: one read
\* the contract, the other found the entry at its second look, and both
\* returned the same map.
C30_Witness ==
    \E i, j \in 1..Len(callers) :
       /\ i # j
       /\ j \in SameCall(i)
       /\ Returned(i) /\ Returned(j)
       /\ callers[i].read
       /\ callers[j].looks = 2
       /\ callers[i].m # {}
       /\ callers[j].m = callers[i].m

\* The read of a goroutine failed and the next goroutine read again.
C30_ReadAgain ==
    \E i, j \in 1..Len(callers) :
       /\ i # j
       /\ j \in SameCall(i)
       /\ callers[i].pc = "done" /\ callers[i].err # errNil
       /\ Returned(j) /\ callers[j].read

-----------------------------------------------------------------------------
(* The snapshots of a node that restarts and whose database may fail. *)

\* The blocks of the validator in turn and of one other validator on the
\* tip, without transactions.
SnapshotBlocksOfTip ==
    UNION {BuildBlock(v, <<>>, <<>>, Tip.Time + Period) : v \in {TurnOfTip, AddrA}}

\* Where Congress.snapshot finds the snapshot at (number, hash): in the
\* cache, on the disk at a checkpoint, or by gathering headers.
RouteOf(number, hash) ==
    IF Lookup(recents, hash) # <<>> THEN "memory"
    ELSE IF number % checkpointInterval = 0 /\ Lookup(db, hash) # <<>> THEN "disk"
    ELSE "rebuilt"

\* A caller asks for the snapshot at a block of the chain, in an execution
\* where snap.store fails or not. The query notes the route, the database
\* before the call, and whether the call before failed on the same block.
SnapshotCall(number, fails) ==
    LET hash == HeaderHash(chain[number + 1])
        asked(s) ==
            /\ recents' = s.recents
            /\ db' = s.db
            /\ res' = s.err
            /\ query' = <<[number |-> number, hash |-> hash, fails |-> fails,
                           route |-> RouteOf(number, hash), snap |-> s.snap, db |-> db,
                           retry |-> /\ op = "snapshot"
                                     /\ res = errStore
                                     /\ query[1].number = number]>>
    IN /\ op' = "snapshot"
       /\ hdr' = chain[number + 1]
       /\ \E s \in {snapshotStoring(number, hash, <<>>, recents, db, fails)} : asked(s)
       /\ calls' = <<>>
       /\ body' = <<>>
       /\ UNCHANGED <<lockVars, config, batch, chain, states, validator, now, work,
                      blacklists, eventCheckRules>>

\* Blocks are inserted, callers ask for the snapshot at every block of the
\* chain, the database fails or not, and the node restarts.
NextSnapshot ==
    \/ \E block \in SnapshotBlocksOfTip : InsertCacheBlock(block)
    \/ Len(chain) <= CacheBlocks /\ Pass
    \/ \E number \in 0..Tip.Number, fails \in BOOLEAN : SnapshotCall(number, fails)
    \/ Restart

SpecSnapshot == InitCache /\ [][NextSnapshot]_vars

-----------------------------------------------------------------------------
(* The nonce of the coinbase in the governance step. *)

\* The nonce of the coinbase when Finalize is entered and when it is left.
NonceAtEntry == Get(FinalizeEntryState.nonce, hdr.Coinbase)

NonceAtExit == Get(query[1].state.nonce, hdr.Coinbase)

\* The proposals the governance step of the last run had to execute.
ProposalsDue == IF IsRedCoast(hdr.Number) THEN Len(PassedAtEntry) ELSE 0

\* C31: when FinalizeAndAssemble or Finalize returns nil, every passed
\* proposal has its system transaction, the i-th system transaction carries
\* the nonce the coinbase has just before the i-th proposal is executed
\* (the nonce at the entry plus i - 1), and the nonce of the coinbase has
\* grown by exactly the number of the proposals, on the producing path and
\* on the replay path alike.
C31_NoncePerProposal ==
    (StepsRan /\ res = errNil) =>
        /\ Len(SystemTxs) = ProposalsDue
        /\ Len(query[1].receipts) = ProposalsDue
        /\ \A i \in 1..Len(SystemTxs) : SystemTxs[i].nonce = NonceAtEntry + i - 1
        /\ NonceAtExit = NonceAtEntry + ProposalsDue

\* A verifier replayed a block with two proposals or more, and the nonce of
\* the coinbase grew by their number.
C31_Witness ==
    /\ StepsRan /\ op = "Finalize" /\ res = errNil
    /\ Len(SystemTxs) >= 2
    /\ NonceAtExit = NonceAtEntry + Len(SystemTxs)
    /\ SystemTxs[Len(SystemTxs)].nonce = NonceAtExit - 1

\* The producer assembled a block with two proposals or more.
C31_Produced ==
    /\ StepsRan /\ op = "FinalizeAndAssemble" /\ res = errNil
    /\ Len(SystemTxs) >= 2
    /\ NonceAtExit = NonceAtEntry + Len(SystemTxs)

-----------------------------------------------------------------------------
(* The routes to a snapshot. *)

\* The snapshot at block number of the chain, built from the genesis.
Canonical(number) ==
    apply(newSnapshot(0, HeaderHash(chain[1]), ParseValidators(chain[1].Extra)),
          SubSeq(chain, 2, number + 1))

\* C32: every snapshot in the cache and on the disk, and every snapshot a
\* call returns, by whichever route, is the snapshot built from the genesis
\* by the headers up to its block in ascending order; the disk holds
\* snapshots of checkpoints only; a call that gathers headers up to a
\* checkpoint and returns nil has saved the snapshot; a store error is
\* returned only when the store failed, leaves the disk as it was, and a
\* call whose store does not fail returns nil.
C32_SnapshotRoutes ==
    /\ \A sn \in recents \cup db : sn.Number <= Tip.Number /\ sn = Canonical(sn.Number)
    /\ \A sn \in db : sn.Number % checkpointInterval = 0
    /\ op = "snapshot" =>
          /\ res \in {errNil, errStore}
          /\ res = errNil =>
                /\ query[1].snap = Canonical(query[1].number)
                /\ Lookup(recents, query[1].hash) = <<query[1].snap>>
          /\ (/\ res = errNil
              /\ query[1].route = "rebuilt"
              /\ query[1].number % checkpointInterval = 0) => query[1].snap \in db
          /\ res = errStore =>
                /\ query[1].fails
                /\ query[1].route = "rebuilt"
                /\ db = query[1].db
          /\ ~query[1].fails => res = errNil

\* After a restart the snapshot of a checkpoint above the genesis was
\* loaded from the disk, and it is the snapshot built from the genesis.
C32_Witness ==
    /\ op = "snapshot" /\ res = errNil
    /\ query[1].route = "disk"
    /\ query[1].number > 0
    /\ query[1].snap = Canonical(query[1].number)
    /\ query[1].snap.Recents # {}

\* A call built the snapshot of a checkpoint from two headers or more and
\* saved it.
C32_Rebuilt ==
    /\ op = "snapshot" /\ res = errNil
    /\ query[1].route = "rebuilt"
    /\ query[1].number >= 2
    /\ query[1].snap \in db
    /\ query[1].snap \notin query[1].db

\* The store of a checkpoint failed and the next call for the same block
\* returned the snapshot.
C32_Retried ==
    /\ op = "snapshot" /\ res = errNil
    /\ query[1].retry
    /\ query[1].number > 0

\* A snapshot of a checkpoint is in the cache and not on the disk.
C32_Unsaved ==
    \E sn \in recents : sn.Number % checkpointInterval = 0 /\ sn \notin db

-----------------------------------------------------------------------------
(* The number of validators of a snapshot. *)

\* The number of blocks of the chains whose epoch headers are looked at.
AuthorityBlocks == 4

\* The validator lists the epoch headers embed: the list of the genesis
\* block, none, and one more than maxValidators.
AuthorityLists ==
    {ParseValidators(chain[1].Extra), <<>>, ManyValidators(maxValidators + 1)}

\* Children of the tip sealed in turn, with each of the lists embedded.
AuthorityCandidates ==
    {SignHeader(ChildHeader(Tip, TurnOfTip, diffInTurn, Tip.Time + Period,
                            WellFormedExtra(Tip.Number + 1, list)), TurnOfTip) :
        list \in AuthorityLists}

\* Foreign headers arrive and are verified, time passes, and the snapshot at
\* a block of the chain is asked for.
NextAuthority ==
    \/ /\ Len(chain) <= AuthorityBlocks
       /\ \E header \in AuthorityCandidates : VerifyHeader(header)
    \/ Len(chain) <= AuthorityBlocks /\ Pass
    \/ \E number \in 0..Tip.Number : SnapshotCall(number, FALSE)

SpecAuthority == Init /\ [][NextAuthority]_vars

\* C33: every snapshot the engine holds, in memory or in the database, has
\* between 1 and maxValidators validators, so the validator in turn,
\* Validators[number mod |Validators|], is defined.
C33_ValidatorCount ==
    \A sn \in recents \cup db :
        /\ 1 <= Cardinality(sn.Validators)
        /\ Cardinality(sn.Validators) <= maxValidators

\* An epoch header that embeds no validator was accepted, and the snapshot
\* at it has no validator.
C33_NoValidator ==
    \E sn \in recents \cup db :
        /\ sn.Number > 0
        /\ sn.Number % Epoch = 0
        /\ sn.Number < Len(chain)
        /\ sn.Hash = HeaderHash(chain[sn.Number + 1])
        /\ sn.Validators = {}

\* An epoch header that embeds more than maxValidators validators was
\* accepted, and a header sealed by one of them after it.
C33_TooMany ==
    \E sn \in recents \cup db :
        /\ sn.Number > 0
        /\ sn.Number % Epoch = 1
        /\ sn.Number < Len(chain)
        /\ sn.Hash = HeaderHash(chain[sn.Number + 1])
        /\ Cardinality(sn.Validators) > maxValidators

-----------------------------------------------------------------------------
(* Authorize between Prepare and Seal. *)

\* The accounts the node is authorized with, one after another.
Accounts == {AddrA, AddrB, AddrC}

\* The miner has called Prepare and has not called Seal yet.
Unsealed == work # <<>> /\ work[1].stage \in {"prepared", "assembled"}

\* The node mines, and Authorize is called before the first Prepare, and
\* with another account between a Prepare and the Seal that follows it.
NextReauthorize ==
    \/ /\ validator = ZeroAddr \/ Unsealed
       /\ \E v \in Accounts \ {validator} : Authorize(v)
    \/ Prepare(<<7>>, {})
    \/ Assemble({})
    \/ Seal(FALSE)
    \/ Deliver("timer", TRUE)
    \/ VerifySealed
    \/ InsertSealed
    \/ Tick

SpecReauthorize == Init /\ [][NextReauthorize]_vars

\* The block Seal sent on the results channel.
Delivered == work # <<>> /\ work[1].stage = "delivered"

\* C37: every block delivered by Seal carries the seal of its coinbase,
\* whenever Authorize is called between Prepare and Seal.
C37_SignerIsCoinbase ==
    Delivered => SignerOf(work[1].header) = work[1].header.Coinbase

\* What holds of a delivered block: it carries the seal of the validator
\* the engine had when Seal was called, who is authorized at its parent.
C37_SignerAuthorized ==
    Delivered =>
        /\ ecrecover(work[1].header).err = errNil
        /\ SignerOf(work[1].header) \in AuthorizedAt(work[1].header.Number - 1)

\* Seal delivered a block sealed by another validator than its coinbase,
\* and the verification of its header rejected it.
C37_Rejected ==
    /\ op = "VerifySealed"
    /\ res = errInvalidCoinbase
    /\ SignerOf(hdr) # hdr.Coinbase
    /\ hdr.Coinbase \in AuthorizedAt(hdr.Number - 1)

-----------------------------------------------------------------------------
(* The lock of the validator fields: goroutines inside Authorize, Seal,     *)
(* Prepare, CalcDifficulty and FinalizeAndAssemble, each a record           *)
(*   [kind, pc, v: the account Authorize was called with,                   *)
(*    first, second: what it read of c.validator, fn: what it read of       *)
(*    c.signFn or c.signTxFn, raced: it read a field while another          *)
(*    goroutine held c.lock for writing].                                   *)

\* The most goroutines inside the engine at once.
MaxGoroutines == 3

\* Where a goroutine of each kind starts.
entry(kind) ==
    CASE kind = "Authorize" -> "lock"
      [] kind = "Seal" -> "rlock"
      [] kind = "Prepare" -> "coinbase"
      [] kind = "CalcDifficulty" -> "return"
      [] kind = "FinalizeAndAssemble" -> "gate"

\* Whether a goroutine holds c.lock for writing.
Writing == locks.lock # 0

\* What every step of a goroutine leaves of the last operation.
Acted(name, header) ==
    /\ op' = name
    /\ hdr' = header
    /\ res' = errNil
    /\ calls' = <<>>
    /\ body' = <<>>
    /\ query' = <<>>
    /\ UNCHANGED <<config, batch, chain, states, now, work, blacklists, eventCheckRules>>

\* Goroutine i goes on as caller; name and header tell the operation.
Stepped(i, caller, name, header) ==
    /\ callers' = [callers EXCEPT ![i] = caller]
    /\ Acted(name, header)

\* A goroutine calls a function of the engine.
Go(kind, v) ==
    /\ Len(callers) < MaxGoroutines
    /\ callers' = Append(callers,
                         [kind |-> kind, pc |-> entry(kind), v |-> v, first |-> ZeroAddr,
                          second |-> ZeroAddr, fn |-> ZeroAddr, raced |-> FALSE])
    /\ Acted(kind, Tip)
    /\ UNCHANGED <<locks, validator, signFns, recents, db>>

\* Authorize: c.lock.Lock().
AuthorizeLock(i) ==
    /\ callers[i].pc = "lock"
    /\ locks.lock = 0
    /\ locks.rlock = {}
    /\ locks' = [locks EXCEPT !.lock = i]
    /\ Stepped(i, [callers[i] EXCEPT !.pc = "validator"], "Authorize", Tip)
    /\ UNCHANGED <<validator, signFns, recents, db>>

\* Authorize: the three assignments, one at a time.
AuthorizeWrite(i) ==
    LET caller == callers[i]
    IN /\ caller.pc \in {"validator", "signFn", "signTxFn"}
       /\ validator' = IF caller.pc = "validator" THEN caller.v ELSE validator
       /\ signFns' = IF caller.pc = "validator" THEN signFns
                     ELSE [signFns EXCEPT ![caller.pc] = caller.v]
       /\ Stepped(i, [caller EXCEPT !.pc = CASE caller.pc = "validator" -> "signFn"
                                            [] caller.pc = "signFn" -> "signTxFn"
                                            [] caller.pc = "signTxFn" -> "unlock"],
                  "Authorize", Tip)
       /\ UNCHANGED <<locks, recents, db>>

\* Authorize: the deferred c.lock.Unlock().
AuthorizeUnlock(i) ==
    /\ callers[i].pc = "unlock"
    /\ locks' = [locks EXCEPT !.lock = 0]
    /\ Stepped(i, [callers[i] EXCEPT !.pc = "done"], "Authorize", Tip)
    /\ UNCHANGED <<validator, signFns, recents, db>>

\* Seal: c.lock.RLock().
SealRLock(i) ==
    /\ callers[i].pc = "rlock"
    /\ locks.lock = 0
    /\ locks' = [locks EXCEPT !.rlock = @ \cup {i}]
    /\ Stepped(i, [callers[i] EXCEPT !.pc = "read"], "Seal", Tip)
    /\ UNCHANGED <<validator, signFns, recents, db>>

\* Seal: val, signFn := c.validator, c.signFn.
SealRead(i) ==
    /\ callers[i].pc = "read"
    /\ Stepped(i, [callers[i] EXCEPT !.pc = "runlock", !.first = validator,
                                     !.second = validator, !.fn = signFns.signFn,
                                     !.raced = Writing],
               "Seal", Tip)
    /\ UNCHANGED <<locks, validator, signFns, recents, db>>

\* Seal: c.lock.RUnlock().
SealRUnlock(i) ==
    /\ callers[i].pc = "runlock"
    /\ locks' = [locks EXCEPT !.rlock = @ \ {i}]
    /\ Stepped(i, [callers[i] EXCEPT !.pc = "done"], "Seal", Tip)
    /\ UNCHANGED <<validator, signFns, recents, db>>

\* Prepare: header.Coinbase = c.validator.
PrepareCoinbase(i) ==
    /\ callers[i].pc = "coinbase"
    /\ Stepped(i, [callers[i] EXCEPT !.pc = "difficulty", !.first = validator,
                                     !.raced = Writing],
               "Prepare", Tip)
    /\ UNCHANGED <<locks, validator, signFns, recents, db>>

\* Prepare: the snapshot, header.Difficulty = calcDifficulty(snap,
\* c.validator), and the rest of the function.
PrepareDifficulty(i) ==
    LET caller == callers[i]
        prepared(r) ==
            /\ recents' = r.recents
            /\ db' = r.db
            /\ Stepped(i, [caller EXCEPT !.pc = "done", !.second = validator,
                                         !.raced = @ \/ Writing],
                       "Prepare", [r.header EXCEPT !.Coinbase = caller.first])
    IN /\ caller.pc = "difficulty"
       /\ prepared(PrepareHeader(NewWork(<<7>>), validator, now, recents, db, {}))
       /\ UNCHANGED <<locks, validator, signFns>>

\* CalcDifficulty: return calcDifficulty(snap, c.validator).
CalcDifficultyReturn(i) ==
    /\ callers[i].pc = "return"
    /\ Stepped(i, [callers[i] EXCEPT !.pc = "done", !.first = validator,
                                     !.second = validator, !.raced = Writing],
               "CalcDifficulty", Tip)
    /\ UNCHANGED <<locks, validator, signFns, recents, db>>

\* FinalizeAndAssemble: if c.signTxFn != nil, with a passed proposal.
AssembleGate(i) ==
    /\ callers[i].pc = "gate"
    /\ Stepped(i, [callers[i] EXCEPT !.pc = IF signFns.signTxFn = ZeroAddr THEN "done"
                                            ELSE "nonce",
                                     !.raced = Writing],
               "FinalizeAndAssemble", Tip)
    /\ UNCHANGED <<locks, validator, signFns, recents, db>>

\* executeProposal: nonce := state.GetNonce(c.validator).
ProposalNonce(i) ==
    /\ callers[i].pc = "nonce"
    /\ Stepped(i, [callers[i] EXCEPT !.pc = "sign", !.first = validator,
                                     !.raced = @ \/ Writing],
               "FinalizeAndAssemble", Tip)
    /\ UNCHANGED <<locks, validator, signFns, recents, db>>

\* executeProposal: c.signTxFn(accounts.Account{Address: c.validator}, ...).
ProposalSign(i) ==
    /\ callers[i].pc = "sign"
    /\ Stepped(i, [callers[i] EXCEPT !.pc = "done", !.second = validator,
                                     !.fn = signFns.signTxFn, !.raced = @ \/ Writing],
               "FinalizeAndAssemble", Tip)
    /\ UNCHANGED <<locks, validator, signFns, recents, db>>

\* Goroutines call Authorize with the wallet of A or of B, and the
\* functions that read the validator fields; each takes its steps in any
\* order with the others.
NextLock ==
    \/ \E v \in {AddrA, AddrB} : Go("Authorize", v)
    \/ \E kind \in {"Seal", "Prepare", "CalcDifficulty", "FinalizeAndAssemble"} :
          Go(kind, ZeroAddr)
    \/ \E i \in 1..Len(callers) : AuthorizeLock(i)
    \/ \E i \in 1..Len(callers) : AuthorizeWrite(i)
    \/ \E i \in 1..Len(callers) : AuthorizeUnlock(i)
    \/ \E i \in 1..Len(callers) : SealRLock(i)
    \/ \E i \in 1..Len(callers) : SealRead(i)
    \/ \E i \in 1..Len(callers) : SealRUnlock(i)
    \/ \E i \in 1..Len(callers) : PrepareCoinbase(i)
    \/ \E i \in 1..Len(callers) : PrepareDifficulty(i)
    \/ \E i \in 1..Len(callers) : CalcDifficultyReturn(i)
    \/ \E i \in 1..Len(callers) : AssembleGate(i)
    \/ \E i \in 1..Len(callers) : ProposalNonce(i)
    \/ \E i \in 1..Len(callers) : ProposalSign(i)

SpecLock == InitOn({<<AddrC, AddrA, AddrB>>}) /\ config = [EnableDevVerification |-> TRUE, SophonBlock |-> NilInt] /\ [][NextLock]_vars

\* C34: the validator fields are read only under c.lock: no goroutine reads
\* one of them while Authorize holds the lock and assigns them, and what
\* a goroutine reads of c.validator and of the signing function it uses is
\* of one and the same Authorize.
C34_ReadUnderLock ==
    \A i \in 1..Len(callers) :
        /\ ~callers[i].raced
        /\ callers[i].pc = "done" /\ callers[i].kind # "Authorize"
              => /\ callers[i].first = callers[i].second
                 /\ callers[i].kind \in {"Seal", "FinalizeAndAssemble"}
                       => callers[i].fn = callers[i].first

\* What holds: Seal reads validator and signFn as one pair, never while
\* Authorize assigns them; and Authorize excludes every other Authorize
\* and every reader that holds the lock.
C34_SealPair ==
    /\ \A i \in 1..Len(callers) :
          callers[i].kind = "Seal" /\ callers[i].pc \in {"runlock", "done"}
              => /\ ~callers[i].raced
                 /\ callers[i].fn = callers[i].first
    /\ Writing => locks.rlock = {}
    /\ \A i \in 1..Len(callers) :
          callers[i].kind = "Authorize" /\ callers[i].pc \in {"validator", "signFn", "signTxFn", "unlock"}
              => locks.lock = i

\* Seal read the pair of an Authorize that another Authorize followed.
C34_SealRead ==
    \E i \in 1..Len(callers) :
        /\ callers[i].kind = "Seal" /\ callers[i].pc = "done"
        /\ callers[i].first # ZeroAddr
        /\ callers[i].first # validator

\* Prepare returned a header whose coinbase is one validator and whose
\* difficulty is that of another.
C34_PrepareTorn ==
    /\ op = "Prepare"
    /\ \E i \in 1..Len(callers) :
          /\ callers[i].kind = "Prepare" /\ callers[i].pc = "done"
          /\ callers[i].first = AddrA /\ callers[i].second = AddrB
          /\ hdr.Coinbase = AddrA
          /\ hdr.Difficulty = diffInTurn
          /\ ~InTurnOf(AuthorizedAt(0), 1, AddrA)

\* executeProposal signed for one validator with the wallet of another.
C34_SignTorn ==
    \E i \in 1..Len(callers) :
        /\ callers[i].kind = "FinalizeAndAssemble" /\ callers[i].pc = "done"
        /\ callers[i].second = AddrB /\ callers[i].fn = AddrA

-----------------------------------------------------------------------------
(* The recent-signer rule of Seal and of verifySeal. *)

\* Whether verifySeal returns errRecentlySigned for a header of the number
\* signed by v on the snapshot.
VerifierRejects(snap, number, v) ==
    sealRecents(snap, number, v) = errRecentlySigned

\* C36: on every snapshot the engine holds, for every validator of it and
\* for the number of the next block, Seal declines to sign exactly when
\* verifySeal returns errRecentlySigned for that validator.
C36_SameRule ==
    \A sn \in recents \cup db :
        \A v \in sn.Validators :
            signedRecently(sn, sn.Number + 1, v) <=> VerifierRejects(sn, sn.Number + 1, v)

\* What holds: the two agree from the block number of the window length
\* on, and whenever verifySeal rejects, Seal declines.
C36_SameBeyondWindow ==
    \A sn \in recents \cup db :
        \A v \in sn.Validators :
            /\ sn.Number + 1 >= RecentsLimit(sn)
                  => (signedRecently(sn, sn.Number + 1, v)
                          <=> VerifierRejects(sn, sn.Number + 1, v))
            /\ VerifierRejects(sn, sn.Number + 1, v) => signedRecently(sn, sn.Number + 1, v)

\* Below the window length Seal declines for a validator whose header
\* verifySeal accepts: the header was verified and is on the chain.
C36_Differ ==
    /\ op = "VerifyHeader"
    /\ res = errNil
    /\ hdr.Number > 1
    /\ \E sn \in recents :
          /\ sn.Number = hdr.Number - 1
          /\ sn.Hash = hdr.ParentHash
          /\ signedRecently(sn, hdr.Number, hdr.Coinbase)
          /\ ~VerifierRejects(sn, hdr.Number, hdr.Coinbase)

\* Both decline and reject: a validator that signed within the window of a
\* block at or beyond the window length.
C36_BothRefuse ==
    \E sn \in recents :
        \E v \in sn.Validators :
            /\ sn.Number + 1 >= RecentsLimit(sn)
            /\ signedRecently(sn, sn.Number + 1, v)
            /\ VerifierRejects(sn, sn.Number + 1, v)

-----------------------------------------------------------------------------
(* The transactions of a block in StateProcessor.Process. *)

\* The block with its system transactions moved before the others.
WithSysFirst(block) ==
    [block EXCEPT !.txs =
        SelectSeq(@, LAMBDA tx : IsSysTransaction(tx.from, tx, block.header))
          \o SelectSeq(@, LAMBDA tx : ~IsSysTransaction(tx.from, tx, block.header))]

\* The block with its first transaction moved behind the others.
WithFirstLast(block) ==
    [block EXCEPT !.txs = IF @ = <<>> THEN @ ELSE Append(Tail(@), Head(@))]

\* The blocks processed: those the validator in turn builds; with the
\* system transactions first; with the first transaction last; with
\* system transactions of another sender.
ProcessBlocks ==
    LET blocks(honest) ==
            honest
              \cup {WithSysFirst(b) : b \in honest}
              \cup {WithFirstLast(b) : b \in honest}
              \cup {WithSysSender(b, AddrX) : b \in honest}
    IN blocks(ProposalBlocks)

\* StateProcessor.Process on a block, on the state of its parent: the loop
\* over its transactions, then Finalize with the transactions and receipts
\* of the loop and the system transactions. The query notes the lists of
\* the loop and the transactions and receipts after Finalize.
ProcessTxsCall(block) ==
    LET header == block.header
        upgraded == PreHandle(ParentState(header), header, {}).state
        finalized(loop, f) ==
            /\ res' = f.err
            /\ calls' = f.calls
            /\ recents' = f.recents
            /\ db' = f.db
            /\ query' = <<[fn |-> "Process", looped |-> loop.err,
                           commonTxs |-> loop.commonTxs, systemTxs |-> loop.systemTxs,
                           validated |-> loop.validated, txs |-> f.txs,
                           receipts |-> loop.receipts \o f.receipts, state |-> f.state]>>
        looped(loop) ==
            finalized(loop,
                      IF loop.err # errNil
                      THEN Fail(NewContext(loop.state, loop.commonTxs, recents, db), loop.err)
                      ELSE Finalize(header, loop.state, loop.commonTxs, loop.systemTxs,
                                    recents, db, {}))
        process(ev) ==
            looped(processLoop([err |-> errNil, state |-> upgraded, cache |-> ev.blacklists,
                                commonTxs |-> <<>>, systemTxs |-> <<>>, receipts |-> <<>>,
                                validated |-> <<>>],
                               block.txs, header))
    IN /\ Len(chain) <= MaxBlocks
       /\ op' = "Process"
       /\ hdr' = header
       /\ body' = block.txs
       /\ process(CreateEvmExtraValidator(header, upgraded, blacklists, eventCheckRules))
       /\ UNCHANGED <<lockVars, config, batch, chain, states, validator, now, work,
                      blacklists, eventCheckRules>>

\* The node takes the blocks of the validator in turn, and processes them
\* and blocks with the same transactions in another order.
NextProcess ==
    \/ \E block \in ProposalBlocks : InsertBlock(block, {})
    \/ \E block \in ProcessBlocks : ProcessTxsCall(block)

SpecProcess == Init /\ [][NextProcess]_vars

\* C35: Process sorts every transaction of the block into the system
\* transactions, which are neither validated nor executed but handed to
\* Finalize, and the others, which are validated and then executed; after
\* a Finalize that returned nil the transactions are the others in block
\* order followed by the system transactions in block order, with one
\* receipt for each in the same order.
C35_Partition ==
    op = "Process" =>
        /\ \A i \in 1..Len(query[1].validated) :
              ~IsSysTransaction(query[1].validated[i].from, query[1].validated[i], hdr)
        /\ IsPrefix(query[1].commonTxs, query[1].validated)
        /\ IsPrefix(query[1].validated, CommonTxs)
        /\ Len(query[1].validated) <= Len(query[1].commonTxs) + 1
        /\ query[1].looped = errNil
              => /\ query[1].commonTxs = CommonTxs
                 /\ query[1].validated = CommonTxs
                 /\ query[1].systemTxs = SystemTxs
        /\ res = errNil
              => /\ query[1].txs = CommonTxs \o SystemTxs
                 /\ Len(query[1].receipts) = Len(query[1].txs)
                 /\ \A i \in 1..Len(query[1].txs) :
                       query[1].receipts[i].TxHash = Keccak256(query[1].txs[i])

\* Process returned nil for a block whose system transactions come before
\* its other transactions.
C35_Witness ==
    /\ op = "Process"
    /\ res = errNil
    /\ Len(SystemTxs) >= 2
    /\ Len(CommonTxs) >= 2
    /\ IsSysTransaction(body[1].from, body[1], hdr)
    /\ query[1].txs # body

\* Process returned nil for a block as its producer built it.
C35_Honest ==
    /\ op = "Process"
    /\ res = errNil
    /\ Len(SystemTxs) >= 1
    /\ query[1].txs = body

\* A transaction to the governance address that the coinbase did not send
\* was validated as any other.
C35_NoSystemTx ==
    /\ op = "Process"
    /\ SystemTxs = <<>>
    /\ \E i \in 1..Len(query[1].validated) : query[1].validated[i].to = SysGovToAddr

-----------------------------------------------------------------------------
(* The producer and the verifier on the same block. *)

\* Prepare by an engine whose validator is coinbase, FinalizeAndAssemble on
\* the transactions txs by the engine whose validator is val by then (the
\* zero address: Authorize was never called, signTxFn is nil), and Finalize
\* of a verifier on the block assembled, on the same state. The query
\* notes what the two returned and the roots they left.
AgreeCall(coinbase, val, txs) ==
    LET verified(header, f, v) ==
            /\ hdr' = f.ret
            /\ res' = v.err
            /\ calls' = v.calls
            /\ recents' = v.recents
            /\ db' = v.db
            /\ body' = f.txs
            /\ query' = <<[fn |-> "Agree", coinbase |-> coinbase, val |-> val,
                           produced |-> f.state, state |-> v.state,
                           root |-> IF v.err = errNil THEN v.ret.Root ELSE <<>>]>>
        assembled(header, pre, f) ==
            /\ f.err = errNil
            /\ verified(header, f,
                        Finalize(f.ret, pre.state,
                                 SelectSeq(f.txs, LAMBDA tx : ~IsSysTransaction(tx.from, tx, f.ret)),
                                 SelectSeq(f.txs, LAMBDA tx : IsSysTransaction(tx.from, tx, f.ret)),
                                 f.recents, f.db, {}))
        applied(p, pre) ==
            /\ pre.err = errNil
            /\ assembled(p.header, pre,
                         FinalizeAndAssemble(p.header, pre.state, txs, recents, db, val, {}))
        prepared(p) ==
            /\ p.err = errNil
            /\ applied(p, applyTransactions(
                              PreHandle(ParentState(p.header), p.header, {}).state, txs))
    IN /\ Len(chain) <= MaxBlocks
       /\ op' = "Agree"
       /\ prepared(PrepareHeader(NewWork(<<>>), coinbase, Tip.Time + Period, recents, db, {}))
       /\ UNCHANGED <<lockVars, config, batch, chain, states, validator, now, work,
                      blacklists, eventCheckRules>>

\* The node takes the blocks of the validator in turn; blocks are assembled
\* by the validator in turn, by a node that was never authorized, and by a
\* node that was authorized anew after Prepare, and verified.
NextAgree ==
    \/ \E block \in ProposalBlocks : InsertBlock(block, {})
    \/ \E txs \in ProposalBodies :
          \E pair \in {<<TurnOfTip, TurnOfTip>>, <<ZeroAddr, ZeroAddr>>, <<TurnOfTip, AddrX>>} :
             AgreeCall(pair[1], pair[2], txs)

SpecAgree == InitProposals /\ [][NextAgree]_vars

\* C38: every block FinalizeAndAssemble returns on a header from Prepare is
\* accepted by Finalize on the same state, and the verifier leaves the
\* state root the producer wrote, also on a node whose signTxFn is not set.
C38_Agree ==
    op = "Agree" =>
        /\ res = errNil
        /\ query[1].root = hdr.Root
        /\ query[1].state = query[1].produced

\* What holds: the two agree on the blocks of a producer that signs as the
\* coinbase of the header, and on every block without a passed proposal.
C38_AgreeWhenSigning ==
    LET signing == \/ query[1].val = hdr.Coinbase /\ query[1].val # ZeroAddr
                   \/ ~IsRedCoast(hdr.Number)
                   \/ PassedAtEntry = <<>>
    IN op = "Agree" /\ signing
          => /\ res = errNil
             /\ query[1].root = hdr.Root
             /\ query[1].state = query[1].produced

\* A node with no signTxFn assembled a block on a state with passed
\* proposals, and Finalize rejected it for the count of its system
\* transactions.
C38_Unset ==
    /\ op = "Agree"
    /\ query[1].val = ZeroAddr
    /\ Len(PassedAtEntry) >= 1
    /\ SystemTxs = <<>>
    /\ res = errInvalidSysGovCount

\* The producer was authorized with another account after Prepare, and
\* Finalize rejected the block for the sender of its system transactions.
C38_Reauthorized ==
    /\ op = "Agree"
    /\ query[1].val \notin {ZeroAddr, hdr.Coinbase}
    /\ Len(PassedAtEntry) >= 1
    /\ res # errNil

\* The two agreed on a block of the signing producer with two proposals or
\* more, and on an epoch block.
C38_Agreed ==
    /\ op = "Agree"
    /\ query[1].val = hdr.Coinbase
    /\ res = errNil
    /\ Len(SystemTxs) >= 2
    /\ query[1].root = hdr.Root

-----------------------------------------------------------------------------
(* The forks of the access controller: ValidateTx past the RedCoast block,  *)
(* CreateEvmExtraValidator past the Sophon block.                            *)

\* The heights chainConfig.SophonBlock is looked at with here: nil, the
\* genesis, the height of RedCoast and the next.
GateSophonBlocks == {NilInt, 0, RedCoastBlock, RedCoastBlock + 1}

InitGate ==
    /\ InitChain
    /\ chain = <<Genesis(<<AddrC, AddrA, AddrB>>)>>
    /\ config \in {[EnableDevVerification |-> TRUE, SophonBlock |-> s] :
                      s \in GateSophonBlocks}

\* The blocks of this chain reach one block past the later fork.
GateBlocks == RedCoastBlock + 1

\* The transactions of the blocks of this chain: none; the admin lists X
\* as From; the admin lists D as To and sets the rule that checks the
\* second topic of the first signature as To.
GateBodies ==
    LET number == Tip.Number + 1
    IN {<<>>,
        <<PlainTx(AddrE, AddressListContractAddr, 0, "addBlacklist",
                  <<AddrX, DirectionFrom, number>>)>>,
        <<PlainTx(AddrE, AddressListContractAddr, 0, "addBlacklist",
                  <<AddrD, DirectionTo, number>>),
          PlainTx(AddrE, AddressListContractAddr, 0, "addRule",
                  <<EventSigT, 1, CheckTo, number>>)>>}

GateBlocksOfTip ==
    UNION {BuildBlock(TurnOfTip, txs, <<>>, Tip.Time + Period) : txs \in GateBodies}

\* What the EVM asks about: an address with the type of its check, and a
\* log, nil or of the first signature with an address as second topic.
GateAsked ==
    {<<AddrX, CheckFrom, <<>>>>,
     <<AddrX, CheckFrom, <<[Topics |-> <<EventSigT, TopicOf(AddrX, 0)>>]>>>>,
     <<AddrD, CheckTo, <<[Topics |-> <<EventSigT, TopicOf(AddrD, 0)>>]>>>>}

\* The EVM of the block, whose context holds the validator that
\* CreateEvmExtraValidator returned, asks whether an address and a log are
\* denied: it asks the validator, and denies nothing when it holds none.
EvmAsks(address, cType, evLog) ==
    LET v == query[1].validator
    IN /\ op \in {"CreateEvmExtraValidator", "EvmAsks"}
       /\ op' = "EvmAsks"
       /\ query' = <<[header |-> query[1].header, state |-> query[1].state,
                      validator |-> v, carried |-> query[1].carried,
                      address |-> address, cType |-> cType, log |-> evLog,
                      denied |-> <<v # <<>> /\ IsAddressDenied(v[1], address, cType),
                                   v # <<>> /\ IsLogDenied(v[1], evLog)>>]>>
       /\ hdr' = hdr
       /\ res' = errNil
       /\ calls' = <<>>
       /\ body' = <<>>
       /\ UNCHANGED <<blacklists, eventCheckRules, lockVars, config,
                      batch, chain, states, recents, db, validator, now, work>>

\* Blocks that change the blacklist and the rules are inserted, callers ask
\* whether a transaction is admitted to the pending block, the miner asks
\* for the validator of its EVM, and the EVM asks that validator.
NextGate ==
    \/ \E block \in GateBlocksOfTip : Len(chain) <= GateBlocks /\ InsertCacheBlock(block)
    \/ \E sender \in {AddrX, AddrD} : ValidateTxCall(sender, AddrE)
    \/ CreateEvmExtraValidatorCall
    \/ \E asked \in GateAsked : EvmAsks(asked[1], asked[2], asked[3])

SpecGate == InitGate /\ [][NextGate]_vars

\* A list that cannot be loaded for the header the validator was asked for:
\* getBlacklist or getEventCheckRules returns an error.
GateUnloaded ==
    \/ getBlacklist(hdr, query[1].state, blacklists).err # errNil
    \/ getEventCheckRules(hdr, query[1].state, eventCheckRules).err # errNil

\* C39: ValidateTx returns nil, hence never ErrAddressDenied, for a header
\* at or below the RedCoast block; CreateEvmExtraValidator returns no
\* validator for a header at or below the Sophon block, without a Sophon
\* block, or when the blacklist or the rules cannot be loaded; and with no
\* validator the EVM denies no address and no log.
C39_ForkGating ==
    /\ op = "ValidateTx" /\ (RedCoastBlock = NilInt \/ hdr.Number <= RedCoastBlock)
          => res = errNil /\ res # ErrAddressDenied
    /\ op = "CreateEvmExtraValidator"
          /\ (SophonBlock = NilInt \/ hdr.Number <= SophonBlock \/ GateUnloaded)
          => query[1].validator = <<>>
    /\ op = "EvmAsks" /\ query[1].validator = <<>> => query[1].denied = <<FALSE, FALSE>>

\* Past the Sophon block the blacklist of the parent state lists X as From
\* but the rules cannot be loaded: the EVM holds no validator and does not
\* deny X as a sender.
C39_Witness ==
    /\ op = "EvmAsks"
    /\ SophonBlock # NilInt /\ hdr.Number > SophonBlock
    /\ query[1].validator = <<>>
    /\ readBlacklist(hdr, query[1].state, {}).err = errNil
    /\ MapHas(readBlacklist(hdr, query[1].state, {}).m, AddrX)
    /\ readEventCheckRules(hdr, query[1].state, {}).err # errNil
    /\ query[1].address = AddrX /\ query[1].cType = CheckFrom
    /\ query[1].denied = <<FALSE, FALSE>>

\* At the RedCoast block a transaction is admitted on a parent state whose
\* blacklist cannot be read.
C39_AtRedCoast ==
    /\ op = "ValidateTx"
    /\ hdr.Number = RedCoastBlock
    /\ res = errNil
    /\ readBlacklist(hdr, query[1].state, {}).err # errNil

\* Past the RedCoast block a transaction of a listed sender is denied.
C39_DeniedPast ==
    /\ op = "ValidateTx"
    /\ hdr.Number > RedCoastBlock
    /\ res = ErrAddressDenied

\* Past the Sophon block, with no Sophon block below the RedCoast block, no
\* validator: the blacklist cannot be loaded.
C39_NoBlacklist ==
    /\ op = "CreateEvmExtraValidator"
    /\ SophonBlock # NilInt /\ hdr.Number > SophonBlock
    /\ query[1].validator = <<>>
    /\ getBlacklist(hdr, query[1].state, blacklists).err # errNil

\* Past the Sophon block the EVM holds a validator and denies an address
\* and a log.
C39_DeniedInEvm ==
    /\ op = "EvmAsks"
    /\ query[1].validator # <<>>
    /\ query[1].denied = <<TRUE, TRUE>>

-----------------------------------------------------------------------------
(* The reward of a block: trySendBlockReward and its guard in Finalize and  *)
(* FinalizeAndAssemble.                                                      *)

\* The bodies of the blocks whose reward is looked at: none; a paid
\* transfer; a free transfer; a free call that passes the proposal which
\* pays the fee recorder.
RewardBodies ==
    LET st == ParentState(NewWork(<<>>))
    IN {<<>>,
        <<UserTx(st, AddrD, 1, "", <<>>)>>,
        <<UserTx(st, AddrD, 0, "", <<>>)>>,
        <<UserTx(st, SysGovContractAddr, 0, "pass", TransferProposal)>>}

RewardBlocks ==
    UNION {BuildBlock(v, txs, <<>>, Tip.Time + Period) : v \in StepProducers,
                                                       txs \in RewardBodies}

\* The node takes the blocks of the validator in turn; callers run Finalize
\* and FinalizeAndAssemble on the next block, in executions where the call
\* of distributeBlockReward reverts or does not.
NextReward ==
    \/ \E block \in RewardBlocks : block.header.Coinbase = TurnOfTip /\ InsertBlock(block, {})
    \/ \E block \in RewardBlocks, faults \in {{}, {"distributeBlockReward"}} :
          FinalizeCall(block, faults)
    \/ \E val \in StepProducers, txs \in RewardBodies,
           faults \in {{}, {"distributeBlockReward"}} :
          AssembleCall(val, txs, faults)

SpecReward == InitSteps /\ [][NextReward]_vars

\* The calls of distributeBlockReward of the last operation.
RewardCalls == SelectSeq(calls, LAMBDA msg : msg.method = "distributeBlockReward")

\* The balance of the fee recorder when Finalize is entered.
FeeAtEntry == Get(FinalizeEntryState.balance, FeeRecoder)

\* Nothing to distribute: no fee, or no user transaction.
RewardSkipped == FeeAtEntry <= 0 \/ Len(CommonTxs) = 0

\* The balances after a reward that was sent: the fee has left the fee
\* recorder and is with the Validators contract; the coinbase, credited
\* with the fee and sender of it, has what it had.
RewardSent ==
    LET to == GetValidatorAddr(hdr.Number)
        balance == FinalizeEntryState.balance
    IN Put(Put(balance, FeeRecoder, 0), to, Get(balance, to) + FeeAtEntry)

\* The balances after a reward whose call reverted: the fee has left the
\* fee recorder and is with the coinbase.
RewardReverted ==
    LET balance == FinalizeEntryState.balance
    IN Put(Put(balance, FeeRecoder, 0), hdr.Coinbase, Get(balance, hdr.Coinbase) + FeeAtEntry)

\* C40: Finalize and FinalizeAndAssemble call distributeBlockReward at most
\* once, from the coinbase with the balance of the fee recorder as value,
\* and not at all when that balance is zero or the block has no user
\* transaction, in which case the reward changes no balance. Otherwise
\* what leaves the fee recorder is what the coinbase is credited with and
\* what it sends with the call: the fee recorder is left with nothing, the
\* Validators contract with the fee more, and the coinbase with the fee
\* more only when the call reverted.
C40_RewardConserved ==
    op \in {"Finalize", "FinalizeAndAssemble"} =>
        /\ Len(RewardCalls) <= 1
        /\ \A i \in 1..Len(RewardCalls) :
              /\ RewardCalls[i].value = FeeAtEntry
              /\ RewardCalls[i].from = hdr.Coinbase
              /\ RewardCalls[i].to = GetValidatorAddr(hdr.Number)
        /\ RewardSkipped => RewardCalls = <<>>
        /\ ~RewardSkipped /\ res = errNil => Len(RewardCalls) = 1
        /\ query # <<>> /\ res = errNil /\ PassedAtEntry = <<>> =>
              query[1].state.balance =
                  IF RewardSkipped THEN FinalizeEntryState.balance ELSE RewardSent
        /\ query # <<>> /\ res # errNil /\ calls # <<>>
              /\ calls[Len(calls)].method = "distributeBlockReward"
              => query[1].state.balance = RewardReverted

\* Finalize of a block with a paid transaction sent the fee to the
\* Validators contract.
C40_Witness ==
    /\ query # <<>>
    /\ op = "Finalize"
    /\ res = errNil
    /\ FeeAtEntry > 0
    /\ Len(CommonTxs) > 0
    /\ Len(RewardCalls) = 1
    /\ RewardCalls[1].value = FeeAtEntry
    /\ query[1].state.balance = RewardSent
    /\ Get(query[1].state.balance, FeeRecoder) = 0

\* A block without user transactions on a state whose fee recorder holds a
\* balance: no reward.
C40_NoUserTx ==
    /\ query # <<>>
    /\ op \in {"Finalize", "FinalizeAndAssemble"}
    /\ res = errNil
    /\ FeeAtEntry > 0
    /\ CommonTxs = <<>>
    /\ RewardCalls = <<>>
    /\ Get(query[1].state.balance, FeeRecoder) = FeeAtEntry

\* A block with a user transaction and no fee: no reward.
C40_NoFee ==
    /\ query # <<>>
    /\ op \in {"Finalize", "FinalizeAndAssemble"}
    /\ res = errNil
    /\ FeeAtEntry = 0
    /\ CommonTxs # <<>>
    /\ RewardCalls = <<>>

\* The call of distributeBlockReward reverted: the coinbase keeps the fee.
C40_Reverted ==
    /\ query # <<>>
    /\ op = "Finalize"
    /\ res # errNil
    /\ Len(RewardCalls) = 1
    /\ FeeAtEntry > 0
    /\ query[1].state.balance = RewardReverted

=============================================================================
